---- MODULE Spec2Model ----
(***************************************************************************)
(* Distributions of numbers of substitutions on a phylogenetic tree        *)
(* (phast, subst_distrib.c) and the relative-entropy tool (consEntropy.c). *)
(*                                                                         *)
(* The C code computes with doubles.  The model computes with exact        *)
(* rationals <<n, d>> (d > 0, lowest terms); a division by zero gives the  *)
(* non-finite values NaN == <<0, 0>> and Inf == <<1, 0>>, and every        *)
(* operation on a non-finite value gives NaN, as IEEE-754 does for the     *)
(* cases that arise here (0/0, 0 * inf).                                   *)
(***************************************************************************)
EXTENDS Integers, Sequences, FiniteSets, TLC

VARIABLES
    pc,          \* position of the running operation
    mod,         \* the TreeModel (rate matrix, background freqs, tree, msa_seq_idx)
    jp,          \* the JumpProcess under construction / constructed
    cond,        \* get_substs_and_bases_given_jumps: condition_on of the running call
    j,           \* get_substs_and_bases_given_jumps: loop index j
    tab,         \* get_substs_and_bases_given_jumps: the local table A
    call,        \* the running site call: function, msa, tuple_idx, lidx
    L,           \* tree DP: L[node id] (a size x 500 matrix), NULL before allocation
    maxsubst,    \* tree DP: maxsubst[node id]
    retval,      \* the value returned by the last finished operation
    feat         \* sub_p_value_joint_many: arguments, locals and stats

vars == <<pc, mod, jp, cond, j, tab, call, L, maxsubst, retval, feat>>

NULL == -1

-----------------------------------------------------------------------------
(* Exact rational arithmetic standing for the C doubles.                   *)

Abs(x) == IF x < 0 THEN -x ELSE x

RECURSIVE GCD(_, _)
GCD(a, b) == IF b = 0 THEN a ELSE GCD(b, a % b)

NaN == <<0, 0>>
Inf == <<1, 0>>
Zero == <<0, 1>>
One == <<1, 1>>

Finite(x) == x[2] # 0

\* n/d in lowest terms with a positive denominator (d # 0)
Rat(n, d) ==
    LET g == GCD(Abs(n), Abs(d))
        s == IF d < 0 THEN -1 ELSE 1
    IN  <<s * (n \div g), s * (d \div g)>>

RInt(n) == <<n, 1>>

RAdd(x, y) ==
    IF ~Finite(x) \/ ~Finite(y) THEN NaN
    ELSE IF x[1] = 0 THEN y
    ELSE IF y[1] = 0 THEN x
    ELSE LET g == GCD(x[2], y[2])
         IN  Rat(x[1] * (y[2] \div g) + y[1] * (x[2] \div g), (x[2] \div g) * y[2])

RNeg(x) == IF Finite(x) THEN <<-x[1], x[2]>> ELSE NaN

RSub(x, y) == RAdd(x, RNeg(y))

RMul(x, y) ==
    IF ~Finite(x) \/ ~Finite(y) THEN NaN
    ELSE IF x[1] = 0 \/ y[1] = 0 THEN Zero
    ELSE LET g1 == GCD(Abs(x[1]), y[2])
             g2 == GCD(Abs(y[1]), x[2])
         IN  <<(x[1] \div g1) * (y[1] \div g2), (x[2] \div g2) * (y[2] \div g1)>>

\* x / y; 0/0 is NaN and x/0 is infinite, as for doubles
RDiv(x, y) ==
    IF ~Finite(x) \/ ~Finite(y) THEN NaN
    ELSE IF y[1] = 0 THEN (IF x[1] = 0 THEN NaN ELSE Inf)
    ELSE RMul(x, Rat(y[2], y[1]))

\* comparisons; every comparison with a NaN is false
RLt(x, y) == Finite(x) /\ Finite(y) /\ x[1] * y[2] < y[1] * x[2]
RLe(x, y) == Finite(x) /\ Finite(y) /\ x[1] * y[2] <= y[1] * x[2]
RGt(x, y) == RLt(y, x)
RGe(x, y) == RLe(y, x)
REq(x, y) == Finite(x) /\ Finite(y) /\ x = y

\* the sum of f[lo], ..., f[hi], accumulated in index-ascending order
RECURSIVE RSumAcc(_, _, _, _)
RSumAcc(f, lo, hi, acc) ==
    IF lo > hi THEN acc ELSE RSumAcc(f, lo + 1, hi, RAdd(acc, f[lo]))

RSum(f, lo, hi) == RSumAcc(f, lo, hi, Zero)

\* floor and ceil of a finite value, as integers
Floor(x) == x[1] \div x[2]
Ceil(x) == -((-x[1]) \div x[2])
\* conversion of a non-negative double to int (truncation)
Trunc(x) == IF x[1] >= 0 THEN x[1] \div x[2] ELSE -((-x[1]) \div x[2])

\* a function value evaluated once, so that tables built column by column
\* are not recomputed at every use
Force(f) == IF f = f THEN f ELSE f

Max(a, b) == IF a > b THEN a ELSE b
Min(a, b) == IF a < b THEN a ELSE b

-----------------------------------------------------------------------------
(* Inputs: rate matrices, background frequencies, trees.                   *)

\* a 0-based vector / matrix from a sequence (of sequences)
Vec(s) == [i \in 0..(Len(s) - 1) |-> s[i + 1]]
Mat(s) == [i \in 0..(Len(s) - 1) |-> Vec(s[i + 1])]

RateModel(q, pi) ==
    [size |-> Len(q),
     rate_matrix |-> Mat([r \in 1..Len(q) |-> [c \in 1..Len(q) |-> RInt(q[r][c])]]),
     backgd_freqs |-> Vec(pi)]

\* two-state Jukes-Cantor
JC2 == RateModel(<< <<-2, 2>>, <<2, -2>> >>, << Rat(1, 2), Rat(1, 2) >>)
\* two states, unequal rates and equilibrium frequencies
HK2 == RateModel(<< <<-2, 2>>, <<1, -1>> >>, << Rat(1, 3), Rat(2, 3) >>)
\* three-state Jukes-Cantor
JC3 == RateModel(<< <<-2, 1, 1>>, <<1, -2, 1>>, <<1, 1, -2>> >>,
                 << Rat(1, 3), Rat(1, 3), Rat(1, 3) >>)
\* a matrix whose rows do not sum to zero: R = I + Q/lambda is not stochastic
BadRows == RateModel(<< <<-2, 1>>, <<1, -2>> >>, << Rat(1, 2), Rat(1, 2) >>)
\* background frequencies that do not sum to 1
BadFreqs == RateModel(<< <<-2, 2>>, <<2, -2>> >>, << Rat(1, 2), Rat(1, 4) >>)

\* A tree: nodes 0..nnodes-1, node id (the root) 0; lchild/rchild are NULL at a
\* leaf; dparent is the branch length to the parent; postorder is tr_postorder.
LeafTree ==
    [nnodes |-> 1, id |-> 0, lchild |-> Vec(<<NULL>>), rchild |-> Vec(<<NULL>>),
     dparent |-> Vec(<<Zero>>), postorder |-> <<0>>, name |-> Vec(<<"s1">>)]

TwoLeafTree(tl, tr) ==
    [nnodes |-> 3, id |-> 0,
     lchild |-> Vec(<<1, NULL, NULL>>), rchild |-> Vec(<<2, NULL, NULL>>),
     dparent |-> Vec(<<Zero, tl, tr>>), postorder |-> <<1, 2, 0>>,
     name |-> Vec(<<"", "s1", "s2">>)]

\* (leaf 1, (leaf 3, leaf 4)): the root's right child is internal
ThreeLeafTree(t1, t2, t3, t4) ==
    [nnodes |-> 5, id |-> 0,
     lchild |-> Vec(<<1, NULL, 3, NULL, NULL>>),
     rchild |-> Vec(<<2, NULL, 4, NULL, NULL>>),
     dparent |-> Vec(<<Zero, t1, t2, t3, t4>>), postorder |-> <<1, 3, 4, 2, 0>>,
     name |-> Vec(<<"", "s1", "", "s2", "s3">>)]

IsLeaf(tree, n) == tree.lchild[n] = NULL

Leaves(tree) == {n \in 0..(tree.nnodes - 1) : IsLeaf(tree, n)}

\* tr_total_len: the sum of the branch lengths of the non-root nodes
tr_total_len(tree) ==
    RSum([n \in 0..(tree.nnodes - 1) |-> IF n = tree.id THEN Zero ELSE tree.dparent[n]],
         0, tree.nnodes - 1)

TreeModel(rm, tree) ==
    [size |-> rm.size, rate_matrix |-> rm.rate_matrix,
     backgd_freqs |-> rm.backgd_freqs, tree |-> tree, order |-> 0,
     msa_seq_idx |-> <<>>]

mm_get(m, r, c) == m[r][c]

-----------------------------------------------------------------------------
(* pv_poisson and pm_normalize (prob_vector.c, prob_matrix.c)                *)

\* number of terms the Poisson vector keeps for a positive rate
PoisSize == 3

RECURSIVE Factorial(_)
Factorial(n) == IF n <= 1 THEN 1 ELSE n * Factorial(n - 1)

RECURSIVE RPow(_, _)
RPow(x, n) == IF n = 0 THEN One ELSE RMul(x, RPow(x, n - 1))

\* the Poisson distribution with mean rate, truncated and normalized: the
\* weights rate^k / k! divided by their sum (the factor exp(-rate) cancels).
\* A rate of 0 gives the point mass at 0.
pv_poisson(rate) ==
    IF rate[1] = 0 THEN [size |-> 1, data |-> Vec(<<One>>)]
    ELSE LET w == Force([k \in 0..(PoisSize - 1) |->
                            RDiv(RPow(rate, k), RInt(Factorial(k)))])
             s == RSum(w, 0, PoisSize - 1)
         IN  [size |-> PoisSize,
              data |-> Force([k \in 0..(PoisSize - 1) |-> RDiv(w[k], s)])]

\* the sum of the entries of an nrows x ncols matrix
MatSum(data, nrows, ncols) ==
    RSum([x \in 0..(nrows - 1) |-> RSum(data[x], 0, ncols - 1)], 0, nrows - 1)

\* pm_normalize: scale the matrix by 1/sum
pm_normalize(m) ==
    LET scale == RDiv(One, MatSum(m.data, m.nrows, m.ncols))
    IN  [m EXCEPT !.data = Force([x \in 0..(m.nrows - 1) |->
                              [y \in 0..(m.ncols - 1) |-> RMul(m.data[x][y], scale)]])]

-----------------------------------------------------------------------------
(* The jump process: get_substs_and_bases_given_jumps,                     *)
(* sub_define_jump_process, sub_distrib_branch_conditional.                *)

\* an initialization that starts from the background distribution whatever
\* the conditioning base
InitTableUnconditioned(m, jmax, condition_on) ==
    [i \in 0..(m.size - 1) |-> [n \in 0..(jmax - 1) |-> [c \in 0..(jmax - 1) |->
        IF n = 0 /\ c = 0 THEN m.backgd_freqs[i] ELSE Zero]]]

\* lines 27-37: A[i] = mat_new(jmax, jmax), zeroed, then the initialization
InitTable(m, jmax, condition_on) ==
    [i \in 0..(m.size - 1) |-> [n \in 0..(jmax - 1) |-> [c \in 0..(jmax - 1) |->
        IF n = 0 /\ c = 0
        THEN (IF condition_on < 0 THEN m.backgd_freqs[i]
              ELSE IF i = condition_on THEN One ELSE Zero)
        ELSE Zero]]]

\* lines 43-48: the new value of A[i]->data[n][jj]
RecurrenceEntry(A, R, size, i, n, jj) ==
    LET stay == RMul(A[i][n][jj - 1], R[i][i])
        change == RSum([k \in 0..(size - 1) |->
                          IF k = i THEN Zero ELSE RMul(A[k][n - 1][jj - 1], R[k][i])],
                       0, size - 1)
    IN  IF n > 0 THEN RAdd(stay, change) ELSE stay

\* the column written by a recurrence that lets n run to jj - 1 only
RecurrenceColumnShort(A, R, size, jmax, jj) ==
    [i \in 0..(size - 1) |-> [n \in 0..(jmax - 1) |-> [c \in 0..(jmax - 1) |->
        IF c = jj /\ n < jj THEN RecurrenceEntry(A, R, size, i, n, jj)
        ELSE A[i][n][c]]]]

\* lines 41-50: one iteration of the loop over j: column jj, rows n = 0..jj
RecurrenceColumn(A, R, size, jmax, jj) ==
    [i \in 0..(size - 1) |-> [n \in 0..(jmax - 1) |-> [c \in 0..(jmax - 1) |->
        IF c = jj /\ n <= jj THEN RecurrenceEntry(A, R, size, i, n, jj)
        ELSE A[i][n][c]]]]

\* lines 40-51: the loop over j from jj on
RECURSIVE RecurrenceFrom(_, _, _, _, _)
RecurrenceFrom(A, R, size, jmax, jj) ==
    IF jj >= jmax THEN A
    ELSE LET next == RecurrenceColumn(A, R, size, jmax, jj)
         IN  \* (the test evaluates the column before the loop goes on)
             IF next = next THEN RecurrenceFrom(next, R, size, jmax, jj + 1) ELSE next

get_substs_and_bases_given_jumps(m, R, jmax, condition_on) ==
    RecurrenceFrom(Force(InitTable(m, jmax, condition_on)), R, m.size, jmax, 1)

\* the truncation rounded up instead of down
NjumpsMaxCeil(totlen) ==
    LET v == RMul(RInt(15), totlen)
    IN  IF RGt(RInt(20), v) THEN 20 ELSE Ceil(v)

\* line 61: jp->njumps_max = max(20, 15 * totlen): the macro yields the double
\* (20 > 15*totlen ? 20 : 15*totlen), which the assignment to an int truncates
NjumpsMax(totlen) ==
    LET v == RMul(RInt(15), totlen)
    IN  IF RGt(RInt(20), v) THEN 20 ELSE Trunc(v)

\* lines 66-70: lambda = max_a -q_aa, starting from 0
RECURSIVE LambdaFrom(_, _, _)
LambdaFrom(m, a, lambda) ==
    IF a >= m.size THEN lambda
    ELSE LET val == RNeg(mm_get(m.rate_matrix, a, a))
         IN  LambdaFrom(m, a + 1, IF RGt(val, lambda) THEN val ELSE lambda)

Lambda(m) == LambdaFrom(m, 0, Zero)

\* lines 73-78: R = Q / lambda + I
JumpMatrix(m, lambda) ==
    [i \in 0..(m.size - 1) |-> [k \in 0..(m.size - 1) |->
        LET q == RDiv(mm_get(m.rate_matrix, i, k), lambda)
        IN  IF i = k THEN RAdd(q, One) ELSE q]]

\* lines 93-98: M[n][jj] = sum_i A[i][n][jj]
Marginalize(A, size, jmax) ==
    [n \in 0..(jmax - 1) |-> [c \in 0..(jmax - 1) |->
        RSum([i \in 0..(size - 1) |-> A[i][n][c]], 0, size - 1)]]

\* the combination with the Poisson vector that reads B[0] for every start base
BranchConditionalFirstBase(B, size, t, lambda) ==
    LET pois == pv_poisson(RMul(lambda, t))
    IN  [k \in 0..(size - 1) |->
            pm_normalize(
                [nrows |-> size, ncols |-> pois.size,
                 data |-> [i \in 0..(size - 1) |-> [n \in 0..(pois.size - 1) |->
                     RSum([c \in 0..(pois.size - 1) |->
                              RMul(B[0][i][n][c], pois.data[c])], 0, pois.size - 1)]]])]

\* lines 162-193: D[k]->data[i][n] = sum_j B[k][i]->data[n][j] * pois[j], normalized
sub_distrib_branch_conditional(B, size, t, lambda) ==
    LET pois == pv_poisson(RMul(lambda, t))
    IN  [k \in 0..(size - 1) |->
            pm_normalize(
                [nrows |-> size, ncols |-> pois.size,
                 data |-> [i \in 0..(size - 1) |-> [n \in 0..(pois.size - 1) |->
                     RSum([c \in 0..(pois.size - 1) |->
                              RMul(B[k][i][n][c], pois.data[c])], 0, pois.size - 1)]]])]

-----------------------------------------------------------------------------
(* Alignments (msa.h, sufficient_stats.h) and the model-alignment binding. *)

GAP_CHAR == "-"

\* the characters of the alphabet of a model with the given number of states
Alphabet(size) == SubSeq(<<"A", "C", "G">>, 1, size)

\* An alignment with sufficient statistics: names[r] is the name of row r,
\* cols[t] the column of tuple t (one character per row), tuple_idx[p] the
\* tuple of position p.
MSA(names, alphabet, cols, tuple_idx) ==
    [names |-> Vec(names), alphabet |-> alphabet, missing |-> {"N", "*"},
     ss |-> [ntuples |-> Len(cols), col_tuples |-> Mat(cols),
             tuple_idx |-> Vec(tuple_idx)]]

\* msa == NULL
NoMSA == <<>>

\* a NULL Matrix pointer
NoMatrix == <<>>

is_missing(msa, c) == c \in msa.missing

inv_alphabet(msa, c) ==
    IF \E k \in 1..Len(msa.alphabet) : msa.alphabet[k] = c
    THEN (CHOOSE k \in 1..Len(msa.alphabet) : msa.alphabet[k] = c) - 1
    ELSE -1

ss_get_char_tuple(msa, tuple_idx, seqidx) == msa.ss.col_tuples[tuple_idx][seqidx]

\* tm_build_seq_idx: for every leaf the row of the alignment with its name
tm_build_seq_idx(tree, msa) ==
    [n \in 0..(tree.nnodes - 1) |->
        IF IsLeaf(tree, n)
        THEN CHOOSE r \in DOMAIN msa.names : msa.names[r] = tree.name[n]
        ELSE -1]

-----------------------------------------------------------------------------
(* normalize_probs (misc.c), pv_normalize (prob_vector.c)                  *)

\* normalize_probs: p[i] /= sum, for the first size entries
normalize_probs(data, size) ==
    LET sum == RSum(data, 0, size - 1)
    IN  Force([n \in 0..(size - 1) |-> RDiv(data[n], sum)])

\* pv_normalize: the vector divided by the sum of its entries
pv_normalize(v) == [size |-> v.size, data |-> normalize_probs(v.data, v.size)]

\* 1e-10 is 1 / (TrimDiv * TrimDiv)
TrimDiv == 100000

\* x < 1e-10 (false for a NaN): for x = n/d > 0 this is d > n * 10^10
LtTrim(x) ==
    /\ Finite(x)
    /\ (x[1] <= 0 \/ ((x[2] - 1) \div TrimDiv) \div TrimDiv >= x[1])

\* x >= 1e-10 (false for a NaN)
GeTrim(x) == Finite(x) /\ ~LtTrim(x)

-----------------------------------------------------------------------------
(* The tree dynamic program: sub_posterior_distrib_site and                *)
(* sub_joint_distrib_site.  L[v] holds the columns 0..maxsubst[v] of the   *)
(* size x 500 matrix of node v; the other columns keep the zeros of        *)
(* mat_zero.                                                               *)

\* line 222, line 382: mat_new(size, 500)
LCols == 500

\* L[v]->data[a][n] for a column n below LCols
LGet(Lv, a, n) == IF n \in DOMAIN Lv[a] THEN Lv[a][n] ELSE Zero

\* lines 230, 391: the leaf is marginalized out
LeafMarginal(msa, c) == msa = NoMSA \/ is_missing(msa, c) \/ c = GAP_CHAR

\* lines 234, 395: the character is not in the alphabet
LeafBad(msa, c) == ~LeafMarginal(msa, c) /\ inv_alphabet(msa, c) < 0

\* a leaf table that ignores the observed character
LeafTableAllOnes(size, msa, c) == [a \in 0..(size - 1) |-> [n \in {0} |-> One]]

\* lines 230-237, 391-397: column 0 of the table of a leaf
LeafTable(size, msa, c) ==
    [a \in 0..(size - 1) |-> [n \in {0} |->
        IF LeafMarginal(msa, c) \/ a = inv_alphabet(msa, c) THEN One ELSE Zero]]

\* lines 247-248, 407-408
InternalMaxsubst(ml, mr, d_left, d_right) ==
    Max(ml + d_left[0].ncols - 1, mr + d_right[0].ncols - 1)

\* lines 253-265: left, for label a and jj substitutions on the left
LeftSum(Ll, ml, d_left, size, a, jj) ==
    LET min_i == Max(0, jj - d_left[0].ncols + 1)
        max_i == Min(jj, ml)
    IN  RSum([b \in 0..(size - 1) |->
                 RSum([i \in min_i..max_i |->
                          RMul(LGet(Ll, b, i), d_left[a].data[b][jj - i])], min_i, max_i)],
             0, size - 1)

\* lines 255-271: right, for label a and m = n - j substitutions on the right
RightSum(Lr, mr, d_right, size, a, m) ==
    LET min_k == Max(0, m - d_right[0].ncols + 1)
        max_k == Min(m, mr)
    IN  RSum([c \in 0..(size - 1) |->
                 RSum([k \in min_k..max_k |->
                          RMul(LGet(Lr, c, k), d_right[a].data[c][m - k])], min_k, max_k)],
             0, size - 1)

\* lines 250-276, 416-440: the table of an internal node
InternalTable(Ll, Lr, ml, mr, d_left, d_right, size) ==
    LET mx == InternalMaxsubst(ml, mr, d_left, d_right)
        left == Force([a \in 0..(size - 1) |-> [jj \in 0..mx |->
                    LeftSum(Ll, ml, d_left, size, a, jj)]])
        right == Force([a \in 0..(size - 1) |-> [m \in 0..mx |->
                    RightSum(Lr, mr, d_right, size, a, m)]])
    IN  [a \in 0..(size - 1) |-> [n \in 0..mx |->
            RSum([jj \in 0..n |-> RMul(left[a][jj], right[a][n - jj])], 0, n)]]

\* lines 250-276 without the bound maxsubst on n: the sum over the splits j of
\* left * right for label a and any total n
ConvolutionEntry(Ll, Lr, ml, mr, d_left, d_right, size, a, n) ==
    RSum([jj \in 0..n |-> RMul(LeftSum(Ll, ml, d_left, size, a, jj),
                               RightSum(Lr, mr, d_right, size, a, n - jj))], 0, n)

\* lines 250-263, 416-430: the columns the loop over i reads at an internal
\* node, over every total n and split j: child is the column i of the left
\* child's table, branch the column j - i of d_left
LeftReads(ml, mr, d_left, d_right) ==
    UNION {UNION {{[child |-> i, branch |-> jj - i] :
                      i \in Max(0, jj - d_left[0].ncols + 1)..Min(jj, ml)} :
                  jj \in 0..n} :
           n \in 0..InternalMaxsubst(ml, mr, d_left, d_right)}

\* lines 250-269, 416-435: the columns the loop over k reads: child is the
\* column k of the right child's table, branch the column n - j - k of d_right
RightReads(ml, mr, d_left, d_right) ==
    UNION {UNION {{[child |-> k, branch |-> n - jj - k] :
                      k \in Max(0, n - jj - d_right[0].ncols + 1)..Min(n - jj, mr)} :
                  jj \in 0..n} :
           n \in 0..InternalMaxsubst(ml, mr, d_left, d_right)}

\* lines 448-456: the columns the loop over i reads in the root step of
\* sub_joint_distrib_site, over every n1 < n1_max and label a
RootReads(n1_max, d_left, size) ==
    UNION {UNION {{[child |-> i, branch |-> n1 - i] :
                      i \in Max(0, n1 - d_left[a].ncols + 1)..n1} :
                  a \in 0..(size - 1)} :
           n1 \in 0..(n1_max - 1)}

\* line 290: for (n = maxsubst; n >= 0 && retval[n] < 1e-10; n--);
RECURSIVE TrimFrom(_, _)
TrimFrom(data, n) == IF n >= 0 /\ LtTrim(data[n]) THEN TrimFrom(data, n - 1) ELSE n

\* the root step without the normalizations
PosteriorRootRaw(Lroot, mx, pi, size) ==
    [size |-> mx + 1,
     data |-> Force([n \in 0..mx |->
                 RSum([a \in 0..(size - 1) |-> RMul(LGet(Lroot, a, n), pi[a])], 0, size - 1)])]

\* lines 280-299: the vector returned by sub_posterior_distrib_site
PosteriorRoot(Lroot, mx, pi, size) ==
    LET raw == Force([n \in 0..mx |->
                   RSum([a \in 0..(size - 1) |-> RMul(LGet(Lroot, a, n), pi[a])], 0, size - 1)])
        norm == normalize_probs(raw, mx + 1)
        newsize == TrimFrom(norm, mx) + 1
    IN  pv_normalize([size |-> newsize, data |-> norm])

\* lines 452-456: left, for label a and n1 substitutions in the left subtree
JointLeftSum(Ll, d_left, size, a, n1) ==
    LET min_i == Max(0, n1 - d_left[a].ncols + 1)
    IN  RSum([b \in 0..(size - 1) |->
                 RSum([i \in min_i..n1 |->
                          RMul(LGet(Ll, b, i), d_left[a].data[b][n1 - i])], min_i, n1)],
             0, size - 1)

\* lines 466-472: the number of rows kept
TrimRows(data, n1_max, n2_max) ==
    LET keep == {n1 \in 0..(n1_max - 1) : \E n2 \in 0..(n2_max - 1) : GeTrim(data[n1][n2])}
    IN  IF keep = {} THEN n1_max
        ELSE (CHOOSE n1 \in keep : \A o \in keep : o <= n1) + 1

\* lines 473-479: the number of columns kept, given the rows kept
TrimCols(data, n1_max, n2_max) ==
    LET keep == {n2 \in 0..(n2_max - 1) : \E n1 \in 0..(n1_max - 1) : GeTrim(data[n1][n2])}
    IN  IF keep = {} THEN n2_max
        ELSE (CHOOSE n2 \in keep : \A o \in keep : o <= n2) + 1

\* lines 444-489: the matrix returned by sub_joint_distrib_site
JointRoot(Ll, Lr, n1_max, n2_max, d_left, pi, size) ==
    LET left == Force([a \in 0..(size - 1) |-> [n1 \in 0..(n1_max - 1) |->
                    JointLeftSum(Ll, d_left, size, a, n1)]])
        raw == Force([n1 \in 0..(n1_max - 1) |-> [n2 \in 0..(n2_max - 1) |->
                   RSum([a \in 0..(size - 1) |->
                            RMul(RMul(left[a][n1], pi[a]), LGet(Lr, a, n2))], 0, size - 1)]])
        scale == RDiv(One, MatSum(raw, n1_max, n2_max))
        scaled == Force([n1 \in 0..(n1_max - 1) |-> [n2 \in 0..(n2_max - 1) |->
                      RMul(raw[n1][n2], scale)]])
        nrows == TrimRows(scaled, n1_max, n2_max)
        ncols == TrimCols(scaled, nrows, n2_max)
    IN  pm_normalize([nrows |-> nrows, ncols |-> ncols,
                      data |-> [n1 \in 0..(nrows - 1) |-> [n2 \in 0..(ncols - 1) |->
                                   scaled[n1][n2]]]])

-----------------------------------------------------------------------------
(* sub_define_jump_process as a sequence of steps.                         *)

NoJumpProcess ==
    [njumps_max |-> 0, lambda |-> Zero, R |-> <<>>, A |-> <<>>, B |-> <<>>,
     M |-> <<>>, branch_distrib |-> <<>>]

NoCall == [fn |-> "none"]

\* branch lengths of the trees a jump process is defined for
JumpTrees ==
    {LeafTree,
     TwoLeafTree(Zero, Zero),
     TwoLeafTree(Rat(1, 2), Rat(1, 2)),
     TwoLeafTree(Rat(7, 10), Rat(7, 10)),
     TwoLeafTree(Rat(3, 4), Rat(3, 4))}

JumpModels == {TreeModel(rm, tr) : rm \in {JC2, HK2, JC3, BadRows, BadFreqs}, tr \in JumpTrees}

InitJump ==
    /\ pc = "define"
    /\ mod \in JumpModels
    /\ jp = NoJumpProcess
    /\ cond = NULL
    /\ j = 0
    /\ tab = <<>>
    /\ call = NoCall
    /\ L = <<>>
    /\ maxsubst = <<>>
    /\ retval = NULL
    /\ feat = NULL

\* lines 58-78, and the entry into the first get_substs_and_bases_given_jumps
DefineStart ==
    /\ pc = "define"
    /\ LET lambda == Lambda(mod)
           njumps_max == NjumpsMax(tr_total_len(mod.tree))
       IN  /\ jp' = [jp EXCEPT !.njumps_max = njumps_max,
                               !.lambda = lambda,
                               !.R = JumpMatrix(mod, lambda)]
           /\ tab' = InitTable(mod, njumps_max, -1)
    /\ cond' = -1
    /\ j' = 1
    /\ pc' = "recurrence"
    /\ UNCHANGED <<mod, call, L, maxsubst, retval, feat>>

\* lines 40-51: one iteration of the loop over j
RecurrenceStep ==
    /\ pc = "recurrence"
    /\ j < jp.njumps_max
    /\ tab' = RecurrenceColumn(tab, jp.R, mod.size, jp.njumps_max, j)
    /\ j' = j + 1
    /\ UNCHANGED <<pc, mod, jp, cond, call, L, maxsubst, retval, feat>>

\* line 53 and lines 80-86: the table is returned and stored as jp->A or
\* jp->B[cond]; the next call starts, or the loop over i ends
ReturnTable ==
    /\ pc = "recurrence"
    /\ j >= jp.njumps_max
    /\ jp' = IF cond < 0 THEN [jp EXCEPT !.A = tab]
             ELSE [jp EXCEPT !.B = (cond :> tab) @@ jp.B]
    /\ IF cond + 1 < mod.size
       THEN /\ cond' = cond + 1
            /\ tab' = InitTable(mod, jp.njumps_max, cond + 1)
            /\ j' = 1
            /\ pc' = pc
       ELSE /\ cond' = NULL
            /\ tab' = <<>>
            /\ j' = 0
            /\ pc' = "marginalize"
    /\ UNCHANGED <<mod, call, L, maxsubst, retval, feat>>

\* lines 93-98
MarginalizeStep ==
    /\ pc = "marginalize"
    /\ jp' = [jp EXCEPT !.M = Marginalize(jp.A, mod.size, jp.njumps_max)]
    /\ pc' = "branches"
    /\ UNCHANGED <<mod, cond, j, tab, call, L, maxsubst, retval, feat>>

\* lines 102-112: branch_distrib for every node, NULL at the root; the
\* assertion of line 168 aborts the program
BranchDistribStep ==
    /\ pc = "branches"
    /\ LET nodes == 0..(mod.tree.nnodes - 1)
           sizes == {pv_poisson(RMul(jp.lambda, mod.tree.dparent[n])).size :
                        n \in nodes \ {mod.tree.id}}
       IN  IF \A sz \in sizes : jp.njumps_max > sz
           THEN /\ jp' = [jp EXCEPT !.branch_distrib =
                            [n \in nodes |->
                                IF n = mod.tree.id THEN NULL
                                ELSE sub_distrib_branch_conditional(
                                         jp.B, mod.size, mod.tree.dparent[n], jp.lambda)]]
                /\ pc' = "done"
           ELSE /\ jp' = jp
                /\ pc' = "abort"
    /\ UNCHANGED <<mod, cond, j, tab, call, L, maxsubst, retval, feat>>

NextJump ==
    \/ DefineStart
    \/ RecurrenceStep
    \/ ReturnTable
    \/ MarginalizeStep
    \/ BranchDistribStep

SpecJump == InitJump /\ [][NextJump]_vars

-----------------------------------------------------------------------------
(* The site operations on a constructed jump process.                      *)

\* lines 57-113 in one piece: the JumpProcess sub_define_jump_process returns
sub_define_jump_process(m) ==
    LET lambda == Lambda(m)
        njumps_max == NjumpsMax(tr_total_len(m.tree))
        R == Force(JumpMatrix(m, lambda))
        A == get_substs_and_bases_given_jumps(m, R, njumps_max, -1)
        B == Force([i \in 0..(m.size - 1) |->
                 get_substs_and_bases_given_jumps(m, R, njumps_max, i)])
    IN  [njumps_max |-> njumps_max, lambda |-> lambda, R |-> R, A |-> A, B |-> B,
         M |-> Marginalize(A, m.size, njumps_max),
         branch_distrib |->
            [n \in 0..(m.tree.nnodes - 1) |->
                IF n = m.tree.id THEN NULL
                ELSE sub_distrib_branch_conditional(B, m.size, m.tree.dparent[n], lambda)]]

\* the characters an alignment column is drawn from: "?" is in no alphabet,
\* "G" is in the alphabet of the three-state models only
Chars == {"A", "C", "G", "-", "N", "?"}

\* the names of the leaves, in the order of their node ids
RECURSIVE LeafNamesFrom(_, _)
LeafNamesFrom(tree, n) ==
    IF n >= tree.nnodes THEN <<>>
    ELSE (IF IsLeaf(tree, n) THEN <<tree.name[n]>> ELSE <<>>) \o LeafNamesFrom(tree, n + 1)

LeafNames(tree) == LeafNamesFrom(tree, 0)

\* the sequence s in reverse order
Reverse(s) == [k \in 1..Len(s) |-> s[Len(s) + 1 - k]]

\* the one-column alignments for the tree of model m: the rows in the order of
\* the leaves with every character, and in the reverse order with A and C
SiteMSAs(m) ==
    {MSA(LeafNames(m.tree), Alphabet(m.size), <<col>>, <<0>>) :
        col \in [1..Len(LeafNames(m.tree)) -> Chars]}
    \cup {MSA(Reverse(LeafNames(m.tree)), Alphabet(m.size), <<col>>, <<0>>) :
        col \in [1..Len(LeafNames(m.tree)) -> {"A", "C"}]}

SiteTrees ==
    {LeafTree,
     TwoLeafTree(Zero, Zero),
     TwoLeafTree(Zero, Rat(1, 2)),
     TwoLeafTree(Rat(1, 2), Zero),
     TwoLeafTree(Rat(1, 2), Rat(1, 2)),
     ThreeLeafTree(Rat(1, 2), Rat(1, 2), Rat(1, 2), Rat(1, 2))}

SiteModels == {TreeModel(rm, tr) : rm \in {JC2, HK2, JC3}, tr \in SiteTrees}

InitSite ==
    /\ pc = "idle"
    /\ mod \in SiteModels
    /\ jp = sub_define_jump_process(mod)
    /\ cond = NULL
    /\ j = 0
    /\ tab = <<>>
    /\ call = NoCall
    /\ L = <<>>
    /\ maxsubst = <<>>
    /\ retval = NULL
    /\ feat = NULL

\* entry into a site function: the assertions on the model and the alignment,
\* the lazy construction of msa_seq_idx, the allocation of L and maxsubst
EnterSite(fn, msa, tuple_idx) ==
    /\ mod' = IF msa # NoMSA /\ mod.msa_seq_idx = <<>>
              THEN [mod EXCEPT !.msa_seq_idx = tm_build_seq_idx(mod.tree, msa)]
              ELSE mod
    /\ call' = [fn |-> fn, msa |-> msa, tuple_idx |-> tuple_idx, lidx |-> 1]
    /\ L' = <<>>
    /\ maxsubst' = <<>>
    /\ pc' = IF mod.order = 0 THEN "traverse" ELSE "abort"

\* lines 205-217: sub_posterior_distrib_site(jp, msa, tuple_idx) is called
CallPosteriorSite ==
    /\ pc = "idle"
    /\ \E msa \in SiteMSAs(mod) : \E t \in 0..(msa.ss.ntuples - 1) :
           EnterSite("sub_posterior_distrib_site", msa, t)
    /\ UNCHANGED <<jp, cond, j, tab, retval, feat>>

\* lines 364-377: sub_joint_distrib_site(jp, msa, tuple_idx) is called, with an
\* alignment or with msa == NULL (the prior); the root has two children
CallJointSite ==
    /\ pc = "idle"
    /\ ~IsLeaf(mod.tree, mod.tree.id)
    /\ \/ \E msa \in SiteMSAs(mod) : \E t \in 0..(msa.ss.ntuples - 1) :
              EnterSite("sub_joint_distrib_site", msa, t)
       \/ EnterSite("sub_joint_distrib_site", NoMSA, -1)
    /\ UNCHANGED <<jp, cond, j, tab, retval, feat>>

\* the node visited by the running traversal
Node == mod.tree.postorder[call.lidx]

\* the character observed at leaf n
LeafChar(n) ==
    IF call.msa = NoMSA THEN GAP_CHAR
    ELSE ss_get_char_tuple(call.msa, call.tuple_idx, mod.msa_seq_idx[n])

\* lines 219-240, 379-400: one iteration of the traversal, at a leaf; a bad
\* character ends the program (die in the scalar function, assert in the joint)
LeafStep ==
    /\ pc = "traverse"
    /\ call.lidx <= Len(mod.tree.postorder)
    /\ IsLeaf(mod.tree, Node)
    /\ IF LeafBad(call.msa, LeafChar(Node))
       THEN /\ pc' = IF call.fn = "sub_posterior_distrib_site" THEN "die" ELSE "abort"
            /\ UNCHANGED <<call, L, maxsubst>>
       ELSE /\ L' = (Node :> LeafTable(mod.size, call.msa, LeafChar(Node))) @@ L
            /\ maxsubst' = (Node :> 0) @@ maxsubst
            /\ call' = [call EXCEPT !.lidx = @ + 1]
            /\ pc' = pc
    /\ UNCHANGED <<mod, jp, cond, j, tab, retval, feat>>

\* lines 242-277, 402-441: one iteration of the traversal, at an internal node
InternalStep ==
    /\ pc = "traverse"
    /\ call.lidx <= Len(mod.tree.postorder)
    /\ ~IsLeaf(mod.tree, Node)
    /\ LET lc == mod.tree.lchild[Node]
           rc == mod.tree.rchild[Node]
           d_left == jp.branch_distrib[lc]
           d_right == jp.branch_distrib[rc]
       IN  /\ L' = (Node :> InternalTable(L[lc], L[rc], maxsubst[lc], maxsubst[rc],
                                          d_left, d_right, mod.size)) @@ L
           /\ maxsubst' = (Node :> InternalMaxsubst(maxsubst[lc], maxsubst[rc],
                                                    d_left, d_right)) @@ maxsubst
    /\ call' = [call EXCEPT !.lidx = @ + 1]
    /\ UNCHANGED <<pc, mod, jp, cond, j, tab, retval, feat>>

\* lines 280-299: the result of sub_posterior_distrib_site; L and maxsubst are freed
PosteriorReturn ==
    /\ pc = "traverse"
    /\ call.lidx > Len(mod.tree.postorder)
    /\ call.fn = "sub_posterior_distrib_site"
    /\ retval' = PosteriorRoot(L[mod.tree.id], maxsubst[mod.tree.id],
                               mod.backgd_freqs, mod.size)
    /\ L' = <<>>
    /\ maxsubst' = <<>>
    /\ pc' = "returned"
    /\ UNCHANGED <<mod, jp, cond, j, tab, call, feat>>

\* lines 412-413, 444-489: the result of sub_joint_distrib_site
JointReturn ==
    /\ pc = "traverse"
    /\ call.lidx > Len(mod.tree.postorder)
    /\ call.fn = "sub_joint_distrib_site"
    /\ LET lc == mod.tree.lchild[mod.tree.id]
           rc == mod.tree.rchild[mod.tree.id]
           d_left == jp.branch_distrib[lc]
           d_right == jp.branch_distrib[rc]
       IN  retval' = JointRoot(L[lc], L[rc],
                               maxsubst[lc] + d_left[0].ncols,
                               maxsubst[rc] + d_right[0].ncols,
                               d_left, mod.backgd_freqs, mod.size)
    /\ L' = <<>>
    /\ maxsubst' = <<>>
    /\ pc' = "returned"
    /\ UNCHANGED <<mod, jp, cond, j, tab, call, feat>>

\* the caller is done with the returned value (vec_free, mat_free, free)
\* a release that frees the jump process as well (sub_free_jump_process)
ReleaseFreeing ==
    /\ pc = "returned"
    /\ retval' = NULL
    /\ call' = NoCall
    /\ feat' = NULL
    /\ jp' = NoJumpProcess
    /\ pc' = "idle"
    /\ UNCHANGED <<mod, cond, j, tab, L, maxsubst>>

Release ==
    /\ pc = "returned"
    /\ retval' = NULL
    /\ call' = NoCall
    /\ feat' = NULL
    /\ pc' = "idle"
    /\ UNCHANGED <<mod, jp, cond, j, tab, L, maxsubst>>

NextSite ==
    \/ CallPosteriorSite
    \/ CallJointSite
    \/ LeafStep
    \/ InternalStep
    \/ PosteriorReturn
    \/ JointReturn
    \/ Release

SpecSite == InitSite /\ [][NextSite]_vars

-----------------------------------------------------------------------------
(* Square roots, and the distribution algebra of prob_vector.c and         *)
(* prob_matrix.c as the orchestrators use it.  A vector is [size, data], a *)
(* matrix [nrows, ncols, data], both 0-based.                              *)

\* sqrt is exact for the square of a rational, and otherwise computed to a
\* resolution of 1 / SqrtScale (rounded down)
SqrtScale == 10

\* the largest r in lo..hi with r * r <= v (lo * lo <= v < (hi + 1) * (hi + 1))
RECURSIVE IsqrtBetween(_, _, _)
IsqrtBetween(v, lo, hi) ==
    IF lo >= hi THEN lo
    ELSE LET mid == (lo + hi + 1) \div 2
         IN  IF mid * mid <= v THEN IsqrtBetween(v, mid, hi)
             ELSE IsqrtBetween(v, lo, mid - 1)

Isqrt(v) == IsqrtBetween(v, 0, Min(v, 46340))

\* floor(x * SqrtScale * SqrtScale) for a finite x >= 0, scaled in two stages
ScaledTwice(x) ==
    LET q1 == (x[1] \div x[2]) * SqrtScale + ((x[1] % x[2]) * SqrtScale) \div x[2]
        r1 == ((x[1] % x[2]) * SqrtScale) % x[2]
    IN  q1 * SqrtScale + (r1 * SqrtScale) \div x[2]

\* sqrt(x): NaN for a NaN or a negative x, infinite for an infinite x
RSqrt(x) ==
    IF x = Inf THEN Inf
    ELSE IF ~Finite(x) \/ x[1] < 0 THEN NaN
    ELSE LET rn == Isqrt(x[1])
             rd == Isqrt(x[2])
         IN  IF rn * rn = x[1] /\ rd * rd = x[2] THEN <<rn, rd>>
             ELSE Rat(Isqrt(ScaledTwice(x)), SqrtScale)

\* pm_marg_x, pm_marg_y, pm_marg_tot: the distributions of x, of y and of x + y
pm_marg_x(p) ==
    [size |-> p.nrows,
     data |-> Force([x \in 0..(p.nrows - 1) |-> RSum(p.data[x], 0, p.ncols - 1)])]

pm_marg_y(p) ==
    [size |-> p.ncols,
     data |-> Force([y \in 0..(p.ncols - 1) |->
                 RSum([x \in 0..(p.nrows - 1) |-> p.data[x][y]], 0, p.nrows - 1)])]

pm_marg_tot(p) ==
    [size |-> p.nrows + p.ncols - 1,
     data |-> Force([s \in 0..(p.nrows + p.ncols - 2) |->
                 RSum([x \in 0..(p.nrows - 1) |->
                          IF s - x \in 0..(p.ncols - 1) THEN p.data[x][s - x] ELSE Zero],
                      0, p.nrows - 1)])]

\* pv_stats: mean and variance of a vector
pv_stats(v) ==
    LET mean == RSum([x \in 0..(v.size - 1) |-> RMul(RInt(x), v.data[x])], 0, v.size - 1)
        sq == RSum([x \in 0..(v.size - 1) |-> RMul(RInt(x * x), v.data[x])], 0, v.size - 1)
    IN  [mean |-> mean, var |-> RSub(sq, RMul(mean, mean))]

\* pm_stats: means and variances of x and y, and their covariance
pm_stats(p) ==
    LET sx == pv_stats(pm_marg_x(p))
        sy == pv_stats(pm_marg_y(p))
        xy == RSum([x \in 0..(p.nrows - 1) |->
                      RSum([y \in 0..(p.ncols - 1) |-> RMul(RInt(x * y), p.data[x][y])],
                           0, p.ncols - 1)], 0, p.nrows - 1)
    IN  [mean_x |-> sx.mean, mean_y |-> sy.mean, var_x |-> sx.var, var_y |-> sy.var,
         covar |-> RSub(xy, RMul(sx.mean, sy.mean))]

\* the convolution of two vectors
VecConvolve(p, q) ==
    [size |-> p.size + q.size - 1,
     data |-> Force([s \in 0..(p.size + q.size - 2) |->
                 RSum([x \in 0..(p.size - 1) |->
                          IF s - x \in 0..(q.size - 1)
                          THEN RMul(p.data[x], q.data[s - x]) ELSE Zero],
                      0, p.size - 1)])]

\* pv_convolve: the n-fold convolution of p with itself (n >= 1)
RECURSIVE pv_convolve(_, _)
pv_convolve(p, n) ==
    IF n <= 1 THEN p
    ELSE LET rest == pv_convolve(p, n - 1)
         IN  IF rest = rest THEN pv_normalize(VecConvolve(rest, p)) ELSE rest

\* the convolution of two matrices
MatConvolve(p, q) ==
    [nrows |-> p.nrows + q.nrows - 1, ncols |-> p.ncols + q.ncols - 1,
     data |-> Force([x \in 0..(p.nrows + q.nrows - 2) |->
                 [y \in 0..(p.ncols + q.ncols - 2) |->
                    RSum([a \in 0..(p.nrows - 1) |->
                        RSum([b \in 0..(p.ncols - 1) |->
                                 IF x - a \in 0..(q.nrows - 1) /\ y - b \in 0..(q.ncols - 1)
                                 THEN RMul(p.data[a][b], q.data[x - a][y - b]) ELSE Zero],
                             0, p.ncols - 1)], 0, p.nrows - 1)]])]

\* pm_convolve: the n-fold convolution of p with itself (n >= 1)
RECURSIVE pm_convolve(_, _)
pm_convolve(p, n) ==
    IF n <= 1 THEN p
    ELSE LET rest == pm_convolve(p, n - 1)
         IN  IF rest = rest THEN pm_normalize(MatConvolve(rest, p)) ELSE rest

\* the convolution of the matrices ps[1..n]
RECURSIVE MatConvolveAll(_, _)
MatConvolveAll(ps, n) ==
    IF n <= 1 THEN ps[1]
    ELSE LET rest == MatConvolveAll(ps, n - 1)
         IN  IF rest = rest THEN MatConvolve(rest, ps[n]) ELSE rest

\* pm_convolve_many_fast: the convolution of ps[1..n], kept to at most
\* max_nrows rows and max_ncols columns, normalized
pm_convolve_many_fast(ps, n, max_nrows, max_ncols) ==
    LET full == MatConvolveAll(ps, n)
        nrows == Min(full.nrows, max_nrows)
        ncols == Min(full.ncols, max_ncols)
    IN  pm_normalize([nrows |-> nrows, ncols |-> ncols,
                      data |-> [x \in 0..(nrows - 1) |-> [y \in 0..(ncols - 1) |->
                                   full.data[x][y]]]])

LOWER == 0
UPPER == 1

\* pv_p_value: P(X <= x_0) for LOWER, P(X >= x_0) for UPPER
pv_p_value(v, x_0, side) ==
    IF side = LOWER THEN RSum(v.data, 0, Min(x_0, v.size - 1))
    ELSE RSum(v.data, Max(x_0, 0), v.size - 1)

\* pv_confidence_interval: the interval that leaves at most (1 - size) / 2 of
\* the mass on either side
pv_confidence_interval(v, size) ==
    LET tail == RDiv(RSub(One, size), RInt(2))
        los == {k \in 0..(v.size - 1) : RLe(RSum(v.data, 0, k - 1), tail)}
        his == {k \in 0..(v.size - 1) : RLe(RSum(v.data, k + 1, v.size - 1), tail)}
    IN  [min |-> CHOOSE k \in los : \A o \in los : o <= k,
         max |-> CHOOSE k \in his : \A o \in his : k <= o]

\* the request x_given_tot / y_given_tot(p, tot) that cannot be answered: the
\* total is outside the support of p or has probability zero
DegenerateTotal(p, tot) ==
    \/ tot < 0
    \/ tot > p.nrows + p.ncols - 2
    \/ pm_marg_tot(p).data[tot] = Zero

\* pm_x_given_tot: the distribution of x given x + y = tot
pm_x_given_tot(p, tot) ==
    LET size == Min(p.nrows, tot + 1)
    IN  pv_normalize([size |-> size,
                      data |-> [x \in 0..(size - 1) |->
                                   IF tot - x \in 0..(p.ncols - 1) THEN p.data[x][tot - x]
                                   ELSE Zero]])

\* pm_y_given_tot: the distribution of y given x + y = tot
pm_y_given_tot(p, tot) ==
    LET size == Min(p.ncols, tot + 1)
    IN  pv_normalize([size |-> size,
                      data |-> [y \in 0..(size - 1) |->
                                   IF tot - y \in 0..(p.nrows - 1) THEN p.data[tot - y][y]
                                   ELSE Zero]])

\* pm_x_given_tot_indep: the same for independent x and y with the given marginals
pm_x_given_tot_indep(tot, marg_x, marg_y) ==
    LET size == Max(0, Min(marg_x.size, tot + 1))
    IN  pv_normalize([size |-> size,
                      data |-> [x \in 0..(size - 1) |->
                                   IF tot - x \in 0..(marg_y.size - 1)
                                   THEN RMul(marg_x.data[x], marg_y.data[tot - x])
                                   ELSE Zero]])

pm_y_given_tot_indep(tot, marg_x, marg_y) == pm_x_given_tot_indep(tot, marg_y, marg_x)

\* the normal quantile z with P(|Z| <= z) = ci, for the levels used
NormQuantile(ci) == IF ci = Rat(19, 20) THEN Rat(49, 25) ELSE Zero

\* norm_confidence_interval: mu -/+ z(ci) * sigma
norm_confidence_interval(mu, sigma, ci) ==
    LET half == RMul(NormQuantile(ci), sigma)
    IN  [min |-> RSub(mu, half), max |-> RAdd(mu, half)]

\* log2_int: the position of the highest set bit (0 for x <= 1)
RECURSIVE log2_int(_)
log2_int(x) == IF x <= 1 THEN 0 ELSE 1 + log2_int(x \div 2)

RECURSIVE int_pow(_, _)
int_pow(x, y) == IF y <= 0 THEN 1 ELSE x * int_pow(x, y - 1)

-----------------------------------------------------------------------------
(* sub_p_value_joint_many: p-values for the features of an alignment, left *)
(* and right subtree counted separately.                                   *)

\* lines 379-442 from position lidx of the traversal on: the tables of all
\* nodes, or ok = FALSE when the assertion of line 395 fails
RECURSIVE TraverseFrom(_, _, _, _, _, _, _)
TraverseFrom(m, jpv, msa, chars, lidx, Lv, mx) ==
    IF lidx > Len(m.tree.postorder) THEN [ok |-> TRUE, L |-> Lv, maxsubst |-> mx]
    ELSE LET n == m.tree.postorder[lidx]
             lc == m.tree.lchild[n]
             rc == m.tree.rchild[n]
         IN  IF IsLeaf(m.tree, n)
             THEN IF LeafBad(msa, chars[n]) THEN [ok |-> FALSE, L |-> Lv, maxsubst |-> mx]
                  ELSE TraverseFrom(m, jpv, msa, chars, lidx + 1,
                                    (n :> LeafTable(m.size, msa, chars[n])) @@ Lv,
                                    (n :> 0) @@ mx)
             ELSE LET tbl == InternalTable(Lv[lc], Lv[rc], mx[lc], mx[rc],
                                           jpv.branch_distrib[lc], jpv.branch_distrib[rc],
                                           m.size)
                  IN  IF tbl = tbl
                      THEN TraverseFrom(m, jpv, msa, chars, lidx + 1, (n :> tbl) @@ Lv,
                                        (n :> InternalMaxsubst(mx[lc], mx[rc],
                                                  jpv.branch_distrib[lc],
                                                  jpv.branch_distrib[rc])) @@ mx)
                      ELSE [ok |-> FALSE, L |-> Lv, maxsubst |-> mx]

\* lines 364-490 in one piece: the matrix sub_joint_distrib_site returns for
\* tuple tuple_idx of msa (the prior if msa is NULL), none if the run aborts;
\* seq_idx is mod->msa_seq_idx
sub_joint_distrib_site(m, jpv, msa, tuple_idx, seq_idx) ==
    LET chars == [n \in Leaves(m.tree) |->
                     IF msa = NoMSA THEN GAP_CHAR
                     ELSE ss_get_char_tuple(msa, tuple_idx, seq_idx[n])]
        t == TraverseFrom(m, jpv, msa, chars, 1, <<>>, <<>>)
        lc == m.tree.lchild[m.tree.id]
        rc == m.tree.rchild[m.tree.id]
    IN  IF ~t.ok THEN NoMatrix
        ELSE JointRoot(t.L[lc], t.L[rc],
                       t.maxsubst[lc] + jpv.branch_distrib[lc][0].ncols,
                       t.maxsubst[rc] + jpv.branch_distrib[rc][0].ncols,
                       jpv.branch_distrib[lc], m.backgd_freqs, m.size)

\* the comparison that sends the length max_conv_len to the approximation
UseJointConvolutionStrict(len, max_conv_len) == len < max_conv_len

\* line 806: the joint prior of a feature of length len is convolved explicitly
UseJointConvolution(len, max_conv_len) == len <= max_conv_len

\* line 818: above this length the prior is kept to its central-limit bounds
CLTLen == 25

\* lines 690-691: the bound on the size of the matrix for length l
ConvolveSizeBound(l, mean_l, sd_l, mean_r, sd_r) ==
    LET sl == RSqrt(RInt(l))
    IN  IF ~Finite(sl) THEN NaN
        ELSE RMul(RAdd(RMul(RInt(l), mean_l), RMul(RMul(RInt(6), sd_l), sl)),
                  RAdd(RMul(RInt(l), mean_r), RMul(RMul(RInt(6), sd_r), sl)))

\* lines 682-683: the length the trial loop starts from
ConvolveLenStart(max_convolve_size, mean_l, sd_l, mean_r, sd_r) ==
    Trunc(RSqrt(RDiv(RInt(max_convolve_size),
                     RMul(RAdd(mean_l, RMul(RInt(6), sd_l)),
                          RAdd(mean_r, RMul(RInt(6), sd_r))))))

\* line 738: the length of a feature
FeatLen(f) == f.end - f.start + 1

\* lines 736-739: the greatest feature length, -1 for no feature
RECURSIVE MaxLenFrom(_, _, _)
MaxLenFrom(feats, idx, maxlen) ==
    IF idx > Len(feats) THEN maxlen
    ELSE MaxLenFrom(feats, idx + 1, Max(maxlen, FeatLen(feats[idx])))

\* lines 735-743: used[t] is 'Y' for the tuples at the positions of a feature
\* a scan that marks every column tuple as used
UsedTuplesAll(msa, feats) == [t \in 0..(msa.ss.ntuples - 1) |-> TRUE]

UsedTuples(msa, feats) ==
    [t \in 0..(msa.ss.ntuples - 1) |->
        \E k \in 1..Len(feats) : \E i \in (feats[k].start - 1)..(feats[k].end - 1) :
            msa.ss.tuple_idx[i] = t]

\* a selection that takes every power up to loglen, whatever the bits of len
SetBitsFromAll(len, i, loglen) == [k \in 1..(loglen - i + 1) |-> i + k - 1]

\* lines 808-815 (and 626-633): the indices i <= loglen of the set bits of len,
\* ascending
RECURSIVE SetBitsFrom(_, _, _)
SetBitsFrom(len, i, loglen) ==
    IF i > loglen THEN <<>>
    ELSE (IF (len \div int_pow(2, i)) % 2 = 1 THEN <<i>> ELSE <<>>)
             \o SetBitsFrom(len, i + 1, loglen)

\* line 813: checksum
RECURSIVE BitSum(_, _)
BitSum(bits, k) == IF k > Len(bits) THEN 0 ELSE int_pow(2, bits[k]) + BitSum(bits, k + 1)

\* lines 768-770: pow_p[0..logmaxlen], each the square of the one before
RECURSIVE PowersFrom(_, _, _)
PowersFrom(pow_p, i, logmaxlen) ==
    IF i > logmaxlen THEN pow_p
    ELSE LET next == pm_convolve(pow_p[i - 1], 2)
         IN  IF next = next THEN PowersFrom((i :> next) @@ pow_p, i + 1, logmaxlen)
             ELSE pow_p

\* lines 861-868: the sum of a per-tuple moment over the positions of feature f
SumOver(f, msa, moment) ==
    RSum([i \in (f.start - 1)..(f.end - 1) |-> moment[msa.ss.tuple_idx[i]]],
         f.start - 1, f.end - 1)

\* the trees, alignments, features, confidence levels and size limits of the
\* runs of sub_p_value_joint_many: the tree is rerooted so that the subtree of
\* interest (leaves s2, s3) is the right child of the root
JointModels == {TreeModel(JC2, ThreeLeafTree(Rat(1, 2), Zero, Rat(1, 2), Rat(1, 2)))}

\* alignments of four positions over two column tuples
JointMSAs(m) ==
    {MSA(LeafNames(m.tree), Alphabet(m.size), cols, <<0, 1, 0, 0>>) :
        cols \in {<< <<"A", "A", "A">>, <<"A", "C", "C">> >>,
                  << <<"A", "C", "C">>, <<"C", "A", "-">> >>,
                  << <<"A", "A", "A">>, <<"A", "C", "?">> >>}}

Feature(start, end) == [start |-> start, end |-> end]

JointFeats ==
    {<<Feature(1, 1)>>,
     <<Feature(1, 2), Feature(3, 3)>>,
     <<Feature(2, 4)>>,
     <<Feature(1, 3), Feature(2, 3)>>}

\* ci: -1 asks for the posterior mean
JointCIs == {RInt(-1), Zero, Rat(19, 20)}

JointSizes == {40, 70, 100}

InitJoint ==
    /\ pc = "idle"
    /\ mod \in JointModels
    /\ jp = sub_define_jump_process(mod)
    /\ cond = NULL
    /\ j = 0
    /\ tab = <<>>
    /\ call = NoCall
    /\ L = <<>>
    /\ maxsubst = <<>>
    /\ retval = NULL
    /\ feat = NULL

\* lines 703-743: the call, and the scan of the features for maxlen and used
CallJointMany ==
    /\ pc = "idle"
    /\ \E msa \in JointMSAs(mod) : \E feats \in JointFeats :
       \E ci \in JointCIs : \E size \in JointSizes :
           feat' = [msa |-> msa, feats |-> feats, ci |-> ci, max_convolve_size |-> size,
                    maxlen |-> MaxLenFrom(feats, 1, -1),
                    used |-> UsedTuples(msa, feats),
                    stats |-> <<>>, idx |-> 0]
    /\ call' = [fn |-> "sub_p_value_joint_many"]
    /\ pc' = "prior_site"
    /\ UNCHANGED <<mod, jp, cond, j, tab, L, maxsubst, retval>>

\* lines 746-759 and 682-683: the per-site prior, its moments and marginals,
\* and the entry into max_convolve_len
PriorSite ==
    /\ pc = "prior_site"
    /\ LET prior_site == sub_joint_distrib_site(mod, jp, NoMSA, -1, mod.msa_seq_idx)
           st == pm_stats(prior_site)
       IN  feat' = [prior_site |-> prior_site,
                    prior_site_mean_left |-> st.mean_x,
                    prior_site_mean_right |-> st.mean_y,
                    prior_site_var_left |-> st.var_x,
                    prior_site_var_right |-> st.var_y,
                    rho |-> RDiv(st.covar, RSqrt(RMul(st.var_x, st.var_y))),
                    prior_site_marg_left |-> pm_marg_x(prior_site),
                    prior_site_marg_right |-> pm_marg_y(prior_site),
                    l |-> ConvolveLenStart(feat.max_convolve_size,
                                           st.mean_x, RSqrt(st.var_x),
                                           st.mean_y, RSqrt(st.var_y))] @@ feat
    /\ pc' = "max_convolve_len"
    /\ UNCHANGED <<mod, jp, cond, j, tab, call, L, maxsubst, retval>>

\* lines 688-695, 756-761: one iteration of the trial loop of max_convolve_len;
\* when the loop ends, max_conv_len = l - 1 and maxlen is cut to it
MaxConvTrial ==
    /\ pc = "max_convolve_len"
    /\ LET l == feat.l + 1
           maxsize == ConvolveSizeBound(l, feat.prior_site_mean_left,
                                        RSqrt(feat.prior_site_var_left),
                                        feat.prior_site_mean_right,
                                        RSqrt(feat.prior_site_var_right))
       IN  IF RLt(maxsize, RInt(feat.max_convolve_size))
           THEN /\ feat' = [feat EXCEPT !.l = l]
                /\ pc' = pc
           ELSE /\ feat' = [max_conv_len |-> l - 1,
                            maxlen |-> Min(feat.maxlen, l - 1),
                            l |-> l] @@ feat
                /\ pc' = "powers"
    /\ UNCHANGED <<mod, jp, cond, j, tab, call, L, maxsubst, retval>>

\* lines 765-784: the powers of the per-site prior
Powers ==
    /\ pc = "powers"
    /\ LET logmaxlen == log2_int(feat.maxlen)
       IN  feat' = [logmaxlen |-> logmaxlen,
                    pow_p |-> PowersFrom((0 :> feat.prior_site), 1, logmaxlen),
                    post_mean_left |-> <<>>, post_mean_right |-> <<>>,
                    post_mean_tot |-> <<>>, post_var_left |-> <<>>,
                    post_var_right |-> <<>>, post_var_tot |-> <<>>,
                    computed |-> <<>>, idx |-> 0] @@ feat
    /\ pc' = "posterior"
    /\ UNCHANGED <<mod, jp, cond, j, tab, call, L, maxsubst, retval>>

\* lines 785-798: one iteration of the loop over the column tuples
PosteriorTuple ==
    /\ pc = "posterior"
    /\ LET idx == feat.idx
           seq_idx == IF mod.msa_seq_idx = <<>>
                      THEN tm_build_seq_idx(mod.tree, feat.msa) ELSE mod.msa_seq_idx
           p == sub_joint_distrib_site(mod, jp, feat.msa, idx, seq_idx)
           sx == pv_stats(pm_marg_x(p))
           sy == pv_stats(pm_marg_y(p))
           stot == pv_stats(pm_marg_tot(p))
           last == idx + 1 >= feat.msa.ss.ntuples
       IN  IF ~feat.used[idx]
           THEN /\ feat' = [feat EXCEPT !.idx = IF last THEN 0 ELSE idx + 1]
                /\ pc' = IF last THEN "features" ELSE pc
                /\ mod' = mod
           ELSE /\ mod' = [mod EXCEPT !.msa_seq_idx = seq_idx]
                /\ IF p = NoMatrix
                   THEN /\ pc' = "abort"
                        /\ feat' = [feat EXCEPT !.computed = Append(@, idx)]
                   ELSE /\ feat' = [feat EXCEPT
                               !.post_mean_left = (idx :> sx.mean) @@ @,
                               !.post_var_left = (idx :> sx.var) @@ @,
                               !.post_mean_right = (idx :> sy.mean) @@ @,
                               !.post_var_right = (idx :> sy.var) @@ @,
                               !.post_mean_tot = (idx :> stot.mean) @@ @,
                               !.post_var_tot = (idx :> stot.var) @@ @,
                               !.computed = Append(@, idx),
                               !.idx = IF last THEN 0 ELSE idx + 1]
                        /\ pc' = IF last THEN "features" ELSE pc
    /\ UNCHANGED <<jp, cond, j, tab, call, L, maxsubst, retval>>

\* the feature of the running iteration of the loop of line 801
Feat == feat.feats[feat.idx + 1]

\* lines 801-847: the prior of the feature and its marginals
FeaturePrior ==
    /\ pc = "features"
    /\ feat.idx < Len(feat.feats)
    /\ LET len == FeatLen(Feat)
           loglen == log2_int(len)
           bits == SetBitsFrom(len, 0, loglen)
           pows == [k \in 1..Len(bits) |-> feat.pow_p[bits[k]]]
           clt == len > CLTLen
           max_nrows == IF clt
                        THEN Ceil(RAdd(RMul(RInt(len), feat.prior_site_mean_left),
                                       RMul(RInt(6), RSqrt(RMul(RInt(len),
                                                feat.prior_site_var_left)))))
                        ELSE feat.pow_p[0].nrows * len
           max_ncols == IF clt
                        THEN Ceil(RAdd(RMul(RInt(len), feat.prior_site_mean_right),
                                       RMul(RInt(6), RSqrt(RMul(RInt(len),
                                                feat.prior_site_var_right)))))
                        ELSE feat.pow_p[0].ncols * len
           prior == pm_convolve_many_fast(pows, Len(bits), max_nrows, max_ncols)
       IN  IF UseJointConvolution(len, feat.max_conv_len)
           THEN IF BitSum(bits, 1) # len
                THEN /\ pc' = "abort"
                     /\ feat' = feat
                ELSE /\ feat' = [prior |-> prior,
                                 prior_marg_left |-> pm_marg_x(prior),
                                 prior_marg_right |-> pm_marg_y(prior)] @@ feat
                     /\ pc' = "aggregate"
           ELSE /\ feat' = [prior |-> NoMatrix,
                            prior_marg_left |-> pv_convolve(feat.prior_site_marg_left, len),
                            prior_marg_right |-> pv_convolve(feat.prior_site_marg_right, len)]
                               @@ feat
                /\ pc' = "aggregate"
    /\ UNCHANGED <<mod, jp, cond, j, tab, call, L, maxsubst, retval>>

\* an interval that is the posterior mean whatever the confidence level
PostIntervalMeanOnly(mean, var, ci) == [min |-> mean, max |-> mean]

\* lines 870-885 (and 648-652): the interval around a posterior mean
PostInterval(mean, var, ci) ==
    IF ci # RInt(-1) THEN norm_confidence_interval(mean, RSqrt(var), ci)
    ELSE [min |-> mean, max |-> mean]

\* lines 849-892: moments and interval of the prior marginals, the summed
\* posterior moments, and the floors and ceilings of the posterior intervals
FeaturePosterior ==
    /\ pc = "aggregate"
    /\ LET sl == pv_stats(feat.prior_marg_left)
           sr == pv_stats(feat.prior_marg_right)
           cl == pv_confidence_interval(feat.prior_marg_left, Rat(19, 20))
           cr == pv_confidence_interval(feat.prior_marg_right, Rat(19, 20))
           post_mean_left == SumOver(Feat, feat.msa, feat.post_mean_left)
           post_mean_right == SumOver(Feat, feat.msa, feat.post_mean_right)
           post_mean_tot == SumOver(Feat, feat.msa, feat.post_mean_tot)
           post_var_left == SumOver(Feat, feat.msa, feat.post_var_left)
           post_var_right == SumOver(Feat, feat.msa, feat.post_var_right)
           post_var_tot == SumOver(Feat, feat.msa, feat.post_var_tot)
           this_left == PostInterval(post_mean_left, post_var_left, feat.ci)
           this_right == PostInterval(post_mean_right, post_var_right, feat.ci)
           this_tot == PostInterval(post_mean_tot, post_var_tot, feat.ci)
       IN  feat' = [cur |-> [prior_mean_left |-> sl.mean, prior_var_left |-> sl.var,
                             prior_min_left |-> cl.min, prior_max_left |-> cl.max,
                             prior_mean_right |-> sr.mean, prior_var_right |-> sr.var,
                             prior_min_right |-> cr.min, prior_max_right |-> cr.max,
                             post_mean_left |-> post_mean_left,
                             post_mean_right |-> post_mean_right,
                             post_mean_tot |-> post_mean_tot,
                             post_var_left |-> post_var_left,
                             post_var_right |-> post_var_right,
                             post_var_tot |-> post_var_tot,
                             post_min_left |-> Floor(this_left.min),
                             post_max_left |-> Ceil(this_left.max),
                             post_min_right |-> Floor(this_right.min),
                             post_max_right |-> Ceil(this_right.max),
                             post_min_tot |-> Floor(this_tot.min),
                             post_max_tot |-> Ceil(this_tot.max)]] @@ feat
    /\ pc' = "conditional"
    /\ UNCHANGED <<mod, jp, cond, j, tab, call, L, maxsubst, retval>>

\* lines 894-937: the conditional and the marginal p-values of the feature; a
\* request to pm_x_given_tot or pm_y_given_tot for a total of probability zero
\* is fatal
FeatureCond ==
    /\ pc = "conditional"
    /\ LET s == feat.cur
           prior == feat.prior
           ml == feat.prior_marg_left
           mr == feat.prior_marg_right
           x_min == IF prior # NoMatrix THEN pm_x_given_tot(prior, s.post_min_tot)
                    ELSE pm_x_given_tot_indep(s.post_min_tot, ml, mr)
           x_max == IF prior # NoMatrix THEN pm_x_given_tot(prior, s.post_max_tot)
                    ELSE pm_x_given_tot_indep(s.post_max_tot, ml, mr)
           y_min == IF prior # NoMatrix THEN pm_y_given_tot(prior, s.post_min_tot)
                    ELSE pm_y_given_tot_indep(s.post_min_tot, ml, mr)
           y_max == IF prior # NoMatrix THEN pm_y_given_tot(prior, s.post_max_tot)
                    ELSE pm_y_given_tot_indep(s.post_max_tot, ml, mr)
       IN  IF prior # NoMatrix /\ (\/ DegenerateTotal(prior, s.post_min_tot)
                              \/ DegenerateTotal(prior, s.post_max_tot))
           THEN /\ pc' = "die"
                /\ feat' = feat
           ELSE /\ feat' = [feat EXCEPT
                       !.stats = Append(@,
                           [cond_p_cons_left |-> pv_p_value(x_min, s.post_max_left, LOWER),
                            cond_p_anti_cons_left |->
                                pv_p_value(x_max, s.post_min_left, UPPER),
                            cond_p_cons_right |-> pv_p_value(y_min, s.post_max_right, LOWER),
                            cond_p_anti_cons_right |->
                                pv_p_value(y_max, s.post_min_right, UPPER),
                            cond_p_approx |-> (prior = NoMatrix),
                            p_cons_left |-> pv_p_value(ml, s.post_max_left, LOWER),
                            p_anti_cons_left |-> pv_p_value(ml, s.post_min_left, UPPER),
                            p_cons_right |-> pv_p_value(mr, s.post_max_right, LOWER),
                            p_anti_cons_right |-> pv_p_value(mr, s.post_min_right, UPPER)]
                           @@ s),
                       !.prior = NoMatrix,
                       !.prior_marg_left = NULL,
                       !.prior_marg_right = NULL,
                       !.idx = @ + 1]
                /\ pc' = "features"
    /\ UNCHANGED <<mod, jp, cond, j, tab, call, L, maxsubst, retval>>

\* lines 940-954: the tables are freed and the stats returned
JointManyReturn ==
    /\ pc = "features"
    /\ feat.idx >= Len(feat.feats)
    /\ retval' = feat.stats
    /\ feat' = [feat EXCEPT !.pow_p = NULL, !.prior_site = NULL,
                            !.prior_site_marg_left = NULL, !.prior_site_marg_right = NULL,
                            !.post_mean_left = NULL, !.post_mean_right = NULL,
                            !.post_mean_tot = NULL, !.post_var_left = NULL,
                            !.post_var_right = NULL, !.post_var_tot = NULL,
                            !.used = NULL]
    /\ pc' = "returned"
    /\ UNCHANGED <<mod, jp, cond, j, tab, call, L, maxsubst>>

NextJoint ==
    \/ CallJointMany
    \/ PriorSite
    \/ MaxConvTrial
    \/ Powers
    \/ PosteriorTuple
    \/ FeaturePrior
    \/ FeaturePosterior
    \/ FeatureCond
    \/ JointManyReturn
    \/ Release

SpecJoint == InitJoint /\ [][NextJoint]_vars

-----------------------------------------------------------------------------
(* max_convolve_len on its own: the arguments are drawn from small sets,   *)
(* call holds them and the local l.                                        *)

\* means and standard deviations of the per-site numbers of substitutions
ConvMeans == {One, RInt(2)}
ConvSds == {Rat(1, 6), Rat(1, 2)}

\* lines 751-759: the mean and the standard deviation of one marginal of the
\* per-site prior; a marginal that is a point mass at 0 has mean 0 and
\* standard deviation 0
ConvMoments ==
    {[mean |-> m, sd |-> sd] : m \in ConvMeans, sd \in ConvSds}
    \cup {[mean |-> Zero, sd |-> Zero]}

\* the range of int
INT_MAX == 2147483647
INT_MIN == -INT_MAX - 1

\* line 682: the double before its conversion to int
ConvolveLenQuotient(max_convolve_size, mean_l, sd_l, mean_r, sd_r) ==
    RSqrt(RDiv(RInt(max_convolve_size),
               RMul(RAdd(mean_l, RMul(RInt(6), sd_l)),
                    RAdd(mean_r, RMul(RInt(6), sd_r)))))

\* line 682: int l = sqrt(...).  The conversion of an infinity or a NaN to
\* int is undefined: it gives INT_MIN (cvttsd2si), or INT_MAX for an infinity
\* and 0 for a NaN (saturating conversion)
ConvolveLenStarts(max_convolve_size, mean_l, sd_l, mean_r, sd_r) ==
    LET q == ConvolveLenQuotient(max_convolve_size, mean_l, sd_l, mean_r, sd_r)
    IN  IF Finite(q)
        THEN {ConvolveLenStart(max_convolve_size, mean_l, sd_l, mean_r, sd_r)}
        ELSE IF q = Inf THEN {INT_MIN, INT_MAX}
        ELSE {INT_MIN, 0}

\* line 689: l++ (an overflow wraps around)
IncInt(l) == IF l = INT_MAX THEN INT_MIN ELSE l + 1

\* line 696: l - 1 (an overflow wraps around)
DecInt(l) == IF l = INT_MIN THEN INT_MAX ELSE l - 1

\* the values of max_convolve_size
ConvSizes == {0, 1, 4, 9, 16, 25, 36, 50, 100}

InitConvLen ==
    /\ pc = "idle"
    /\ mod = NULL
    /\ jp = NoJumpProcess
    /\ cond = NULL
    /\ j = 0
    /\ tab = <<>>
    /\ call = NoCall
    /\ L = <<>>
    /\ maxsubst = <<>>
    /\ retval = NULL
    /\ feat = NULL

\* lines 678-683: the call and the initial value of l
CallMaxConvolveLen ==
    /\ pc = "idle"
    /\ \E size \in ConvSizes : \E left \in ConvMoments : \E right \in ConvMoments :
       \E l \in ConvolveLenStarts(size, left.mean, left.sd, right.mean, right.sd) :
           call' = [fn |-> "max_convolve_len", max_convolve_size |-> size,
                    mean_l |-> left.mean, sd_l |-> left.sd,
                    mean_r |-> right.mean, sd_r |-> right.sd, l |-> l]
    /\ pc' = "trial"
    /\ UNCHANGED <<mod, jp, cond, j, tab, L, maxsubst, retval, feat>>

\* lines 688-695: one iteration of the do-while loop; the return of l - 1
ConvTrial ==
    /\ pc = "trial"
    /\ LET l == IncInt(call.l)
           maxsize == ConvolveSizeBound(l, call.mean_l, call.sd_l, call.mean_r, call.sd_r)
       IN  /\ call' = [call EXCEPT !.l = l]
           /\ IF RLt(maxsize, RInt(call.max_convolve_size))
              THEN /\ pc' = pc
                   /\ retval' = retval
              ELSE /\ pc' = "returned"
                   /\ retval' = DecInt(l)
    /\ UNCHANGED <<mod, jp, cond, j, tab, L, maxsubst, feat>>

NextConvLen ==
    \/ CallMaxConvolveLen
    \/ ConvTrial
    \/ Release

SpecConvLen == InitConvLen /\ [][NextConvLen]_vars

-----------------------------------------------------------------------------
(* sub_p_value_many: p-values for the features of an alignment, from the   *)
(* distribution of the number of substitutions in the whole tree.          *)

\* a NULL Vector pointer
NoVector == <<>>

\* lines 139-156: p(n | t), the distribution of the number of substitutions on
\* a branch of length t; none if the assertion of line 144 fails
sub_distrib_branch(jpv, t) ==
    LET pois == pv_poisson(RMul(jpv.lambda, t))
    IN  IF ~(jpv.njumps_max > pois.size) THEN NoVector
        ELSE pv_normalize(
                 [size |-> pois.size,
                  data |-> [n \in 0..(pois.size - 1) |->
                               RSum([c \in 0..(pois.size - 1) |->
                                        RMul(jpv.M[n][c], pois.data[c])],
                                    0, pois.size - 1)]])

\* lines 198-200
sub_prior_distrib_site(m, jpv) == sub_distrib_branch(jpv, tr_total_len(m.tree))

\* lines 205-300 in one piece: the vector sub_posterior_distrib_site returns for
\* tuple tuple_idx of msa, none if a character is bad; seq_idx is
\* mod->msa_seq_idx
sub_posterior_distrib_site(m, jpv, msa, tuple_idx, seq_idx) ==
    LET chars == [n \in Leaves(m.tree) |-> ss_get_char_tuple(msa, tuple_idx, seq_idx[n])]
        t == TraverseFrom(m, jpv, msa, chars, 1, <<>>, <<>>)
    IN  IF ~t.ok THEN NoVector
        ELSE PosteriorRoot(t.L[m.tree.id], t.maxsubst[m.tree.id], m.backgd_freqs, m.size)

\* the convolution of the vectors ps[1..n]
RECURSIVE VecConvolveAll(_, _)
VecConvolveAll(ps, n) ==
    IF n <= 1 THEN ps[1]
    ELSE LET rest == VecConvolveAll(ps, n - 1)
         IN  IF rest = rest THEN VecConvolve(rest, ps[n]) ELSE rest

\* pv_convolve_many: the convolution of ps[1..n], normalized
pv_convolve_many(ps, n) == pv_normalize(VecConvolveAll(ps, n))

\* lines 604-606: pow_p[0..logmaxlen], each the square of the one before
RECURSIVE VecPowersFrom(_, _, _)
VecPowersFrom(pow_p, i, logmaxlen) ==
    IF i > logmaxlen THEN pow_p
    ELSE LET next == pv_convolve(pow_p[i - 1], 2)
         IN  IF next = next THEN VecPowersFrom((i :> next) @@ pow_p, i + 1, logmaxlen)
             ELSE pow_p

\* alignments of five positions over three column tuples
ManyMSAs(m) ==
    {MSA(LeafNames(m.tree), Alphabet(m.size), cols, <<0, 1, 0, 2, 1>>) :
        cols \in {<< <<"A", "A", "A">>, <<"A", "C", "C">>, <<"C", "C", "A">> >>,
                  << <<"A", "C", "C">>, <<"C", "A", "-">>, <<"N", "A", "A">> >>,
                  << <<"A", "A", "A">>, <<"A", "C", "C">>, <<"A", "?", "C">> >>}}

ManyFeats ==
    {<<Feature(1, 1)>>,
     <<Feature(1, 2), Feature(3, 3)>>,
     <<Feature(1, 3)>>,
     <<Feature(2, 4)>>,
     <<Feature(1, 3), Feature(2, 5)>>,
     <<Feature(5, 5), Feature(1, 5)>>}

\* lines 572-598: the call, and the scan of the features for maxlen and used
CallMany ==
    /\ pc = "idle"
    /\ \E msa \in ManyMSAs(mod) : \E feats \in ManyFeats : \E ci \in JointCIs :
           feat' = [msa |-> msa, feats |-> feats, ci |-> ci,
                    maxlen |-> MaxLenFrom(feats, 1, -1),
                    used |-> UsedTuples(msa, feats),
                    stats |-> <<>>, idx |-> 0]
    /\ call' = [fn |-> "sub_p_value_many"]
    /\ pc' = "many_powers"
    /\ UNCHANGED <<mod, jp, cond, j, tab, L, maxsubst, retval>>

\* lines 602-611: the powers of the per-site prior
ManyPowers ==
    /\ pc = "many_powers"
    /\ LET logmaxlen == log2_int(feat.maxlen)
           prior_site == sub_prior_distrib_site(mod, jp)
       IN  IF prior_site = NoVector
           THEN /\ pc' = "abort"
                /\ feat' = feat
           ELSE /\ feat' = [logmaxlen |-> logmaxlen,
                            pow_p |-> VecPowersFrom((0 :> prior_site), 1, logmaxlen),
                            post_mean |-> <<>>, post_var |-> <<>>,
                            computed |-> <<>>, idx |-> 0] @@ feat
                /\ pc' = "many_posterior"
    /\ UNCHANGED <<mod, jp, cond, j, tab, call, L, maxsubst, retval>>

\* lines 612-617: one iteration of the loop over the column tuples
ManyPosteriorTuple ==
    /\ pc = "many_posterior"
    /\ LET idx == feat.idx
           seq_idx == IF mod.msa_seq_idx = <<>>
                      THEN tm_build_seq_idx(mod.tree, feat.msa) ELSE mod.msa_seq_idx
           p == sub_posterior_distrib_site(mod, jp, feat.msa, idx, seq_idx)
           st == pv_stats(p)
           last == idx + 1 >= feat.msa.ss.ntuples
       IN  IF ~feat.used[idx]
           THEN /\ feat' = [feat EXCEPT !.idx = IF last THEN 0 ELSE idx + 1]
                /\ pc' = IF last THEN "many_features" ELSE pc
                /\ mod' = mod
           ELSE /\ mod' = [mod EXCEPT !.msa_seq_idx = seq_idx]
                /\ IF p = NoVector
                   THEN /\ pc' = "die"
                        /\ feat' = [feat EXCEPT !.computed = Append(@, idx)]
                   ELSE /\ feat' = [feat EXCEPT
                               !.post_mean = (idx :> st.mean) @@ @,
                               !.post_var = (idx :> st.var) @@ @,
                               !.computed = Append(@, idx),
                               !.idx = IF last THEN 0 ELSE idx + 1]
                        /\ pc' = IF last THEN "many_features" ELSE pc
    /\ UNCHANGED <<jp, cond, j, tab, call, L, maxsubst, retval>>

-----------------------------------------------------------------------------
(* Properties of the jump process (checked under SpecJump).                *)

RowStochastic(R, size) == \A i \in 0..(size - 1) : RSum(R[i], 0, size - 1) = One

FreqsSumToOne(m) == RSum(m.backgd_freqs, 0, m.size - 1) = One

\* sum over end-bases i and substitution counts n of A[i]->data[n][c]
TableColumnSum(A, size, jmax, c) ==
    RSum([i \in 0..(size - 1) |-> RSum([n \in 0..(jmax - 1) |-> A[i][n][c]], 0, jmax - 1)],
         0, size - 1)

\* C1: in every JumpProcess built from a row-stochastic R and background
\* frequencies summing to 1, for every jump count c below njumps_max the
\* entries of A in column c sum to 1 over (i, n), and so do those of B[a] for
\* every start base a: the jmax x jmax table and the bound n <= j lose no mass.
C1_JumpTablesSumToOne ==
    (pc = "done" /\ RowStochastic(jp.R, mod.size) /\ FreqsSumToOne(mod)) =>
        \A c \in 0..(jp.njumps_max - 1) :
            /\ TableColumnSum(jp.A, mod.size, jp.njumps_max, c) = One
            /\ \A a \in 0..(mod.size - 1) :
                   TableColumnSum(jp.B[a], mod.size, jp.njumps_max, c) = One

\* a finished three-state process with more than 20 jump counts whose last
\* column carries mass at n = j = njumps_max - 1, the corner of the table
C1_Witness ==
    /\ pc = "done" /\ RowStochastic(jp.R, mod.size) /\ FreqsSumToOne(mod)
    /\ mod.size = 3 /\ jp.njumps_max > 20
    /\ RGt(jp.A[0][jp.njumps_max - 1][jp.njumps_max - 1], Zero)
    /\ RGt(jp.B[1][2][jp.njumps_max - 1][jp.njumps_max - 1], Zero)

\* C6 as stated: njumps_max = max(20, ceil(15 * total branch length))
C6_TruncationIsCeil ==
    pc # "define" =>
        jp.njumps_max = Max(20, Ceil(RMul(RInt(15), tr_total_len(mod.tree))))

\* C6 (amended): the jump-count truncation stored by sub_define_jump_process is
\* max(20, floor(15 * total branch length)): a non-integer product greater
\* than 20 is rounded down, not up.
C6_TruncationIsFloor ==
    pc # "define" =>
        jp.njumps_max = Max(20, Floor(RMul(RInt(15), tr_total_len(mod.tree))))

\* a finished process for a tree with 15 * total length = 22.5
C6_Witness ==
    /\ pc = "done"
    /\ LET v == RMul(RInt(15), tr_total_len(mod.tree))
       IN  v[2] # 1 /\ RGt(v, RInt(20)) /\ jp.njumps_max = 22

NegativeBranch(tree) ==
    \E n \in 0..(tree.nnodes - 1) : n # tree.id /\ RLt(tree.dparent[n], Zero)

\* C7: a tree with a negative branch length, an empty alphabet or a jump matrix
\* with a row that does not sum to 1 never yields a JumpProcess (the
\* construction ends in a fatal error instead).
C7_BadConfigurationIsFatal ==
    (\/ NegativeBranch(mod.tree)
     \/ mod.size = 0
     \/ ~RowStochastic(JumpMatrix(mod, Lambda(mod)), mod.size)) => pc # "done"

\* the non-root nodes whose branch to the parent has length 0
ZeroBranches(tree) ==
    {n \in 0..(tree.nnodes - 1) : n # tree.id /\ tree.dparent[n] = Zero}

\* C4: for a branch of length 0 the tables D of sub_distrib_branch_conditional
\* are, for every start base a, D[a][a][0] = 1 and D[a][b][n] = 0 for every
\* other end base b and substitution count n.
C4_ZeroBranchIsPointMass ==
    pc = "done" =>
        \A v \in ZeroBranches(mod.tree) : \A a \in 0..(mod.size - 1) :
            LET D == jp.branch_distrib[v][a]
            IN  /\ D.nrows = mod.size
                /\ D.ncols >= 1
                /\ \A b \in 0..(D.nrows - 1) : \A n \in 0..(D.ncols - 1) :
                       D.data[b][n] = IF b = a /\ n = 0 THEN One ELSE Zero

\* a finished three-state process for a tree with a zero-length branch
C4_Witness ==
    /\ pc = "done"
    /\ mod.size = 3
    /\ ZeroBranches(mod.tree) # {}
    /\ \A v \in ZeroBranches(mod.tree) : jp.branch_distrib[v][2].data[2][0] = One

-----------------------------------------------------------------------------
(* Properties of the site operations (checked under SpecSite).             *)

ScalarReturned == pc = "returned" /\ call.fn = "sub_posterior_distrib_site"

\* the character of the running column in the alignment row bound to leaf v
ObservedChar(v) == call.msa.ss.col_tuples[call.tuple_idx][mod.msa_seq_idx[v]]

InAlphabet(c) == \E k \in 1..Len(call.msa.alphabet) : call.msa.alphabet[k] = c

IndexOf(c) == (CHOOSE k \in 1..Len(call.msa.alphabet) : call.msa.alphabet[k] = c) - 1

GapOrMissing(c) == c = "-" \/ c \in call.msa.missing

\* C2: the vector returned by sub_posterior_distrib_site has only non-negative
\* entries and its entries sum to 1, for every tree with branch lengths >= 0
\* and every column, columns of zero likelihood included.
C2_PosteriorIsDistribution ==
    ScalarReturned =>
        /\ \A n \in 0..(retval.size - 1) : RGe(retval.data[n], Zero)
        /\ RSum(retval.data, 0, retval.size - 1) = One

\* C3: for a two-leaf tree with positive branch lengths and a column in which
\* the two leaves carry different alphabet characters, the returned posterior
\* gives probability 0 to n = 0 and probability 1 to n >= 1.
C3_DifferentBasesNeedSubstitution ==
    (/\ ScalarReturned
     /\ mod.tree.nnodes = 3
     /\ RGt(mod.tree.dparent[1], Zero) /\ RGt(mod.tree.dparent[2], Zero)
     /\ InAlphabet(ObservedChar(1)) /\ InAlphabet(ObservedChar(2))
     /\ ObservedChar(1) # ObservedChar(2))
    => /\ retval.size >= 2
       /\ retval.data[0] = Zero
       /\ RSum(retval.data, 1, retval.size - 1) = One

\* the posterior of the column (A, C) under the model with unequal base
\* frequencies and both branches of length 1/2
C3_Witness ==
    /\ ScalarReturned
    /\ mod.tree.nnodes = 3
    /\ RGt(mod.tree.dparent[1], Zero) /\ RGt(mod.tree.dparent[2], Zero)
    /\ mod.backgd_freqs[0] # mod.backgd_freqs[1]
    /\ ObservedChar(1) = "A" /\ ObservedChar(2) = "C"
    /\ retval.data[0] = Zero

\* C5: for a tree that is a single leaf, sub_posterior_distrib_site returns a
\* vector of size 1 whose entry is 1, for every observed character that is a
\* gap, missing or in the alphabet.
C5_SingleLeafIsPointMass ==
    (ScalarReturned /\ mod.tree.nnodes = 1) =>
        /\ GapOrMissing(ObservedChar(0)) \/ InAlphabet(ObservedChar(0))
        /\ retval.size = 1
        /\ retval.data[0] = One

\* the posterior of a single leaf that shows the last character of a
\* three-letter alphabet
C5_Witness ==
    /\ ScalarReturned /\ mod.tree.nnodes = 1
    /\ mod.size = 3 /\ ObservedChar(0) = "G"
    /\ retval.size = 1

\* the leaves the running traversal has passed
LeavesDone ==
    {mod.tree.postorder[k] : k \in {x \in 1..Len(mod.tree.postorder) :
        x < call.lidx /\ IsLeaf(mod.tree, mod.tree.postorder[x])}}

UnknownChar(c) == ~GapOrMissing(c) /\ ~InAlphabet(c)

\* C8: in the scalar and in the bivariate DP with an alignment, a leaf with a
\* gap or a missing-data character has L[a][0] = 1 for every a, a leaf with an
\* alphabet character c has L[a][0] = 1 for a = index(c) and 0 elsewhere, and
\* a leaf with any other character ends the run in a fatal error: the
\* traversal never passes it and no result is returned.
C8_LeafBaseCase ==
    (call.fn # "none" /\ call.msa # NoMSA) =>
        /\ pc = "traverse" =>
               \A v \in LeavesDone : \A a \in 0..(mod.size - 1) :
                   /\ ~UnknownChar(ObservedChar(v))
                   /\ GapOrMissing(ObservedChar(v)) => L[v][a][0] = One
                   /\ InAlphabet(ObservedChar(v)) =>
                          L[v][a][0] = IF a = IndexOf(ObservedChar(v)) THEN One ELSE Zero
        /\ pc = "returned" =>
               \A v \in Leaves(mod.tree) : ~UnknownChar(ObservedChar(v))
        /\ pc \in {"die", "abort"} =>
               /\ retval = NULL
               /\ UnknownChar(ObservedChar(Node))

\* the bivariate DP stopped at an unknown character after a leaf with a gap
\* and a leaf with an alphabet character got their tables
C8_Witness ==
    /\ pc = "abort"
    /\ call.fn = "sub_joint_distrib_site"
    /\ call.msa # NoMSA
    /\ UnknownChar(ObservedChar(Node))
    /\ \E v \in LeavesDone : ObservedChar(v) = "-" /\ L[v][1][0] = One
    /\ \E v \in LeavesDone : ObservedChar(v) = "A" /\ L[v][1][0] = Zero /\ L[v][0][0] = One

-----------------------------------------------------------------------------
(* Properties of sub_p_value_joint_many (checked under SpecJoint).         *)

\* the probability that x + y = tot under the joint distribution p
TotalMass(p, tot) ==
    RSum([x \in 0..(p.nrows - 1) |->
             IF tot - x \in 0..(p.ncols - 1) THEN p.data[x][tot - x] ELSE Zero],
         0, p.nrows - 1)

\* C9: for every feature processed with an explicit joint prior, each total
\* passed to x_given_tot / y_given_tot (post_min_tot and post_max_tot) is
\* non-negative, inside the support of the prior, and has non-zero prior
\* probability marg_tot[s].
C9_NoDegenerateRequest ==
    (pc = "conditional" /\ feat.prior # NoMatrix) =>
        \A s \in {feat.cur.post_min_tot, feat.cur.post_max_tot} :
            /\ s >= 0
            /\ s <= feat.prior.nrows + feat.prior.ncols - 2
            /\ TotalMass(feat.prior, s) # Zero

\* the p-values of a feature of length len whose joint prior was skipped
ApproxPValues(len, s) ==
    LET ml == pv_convolve(feat.prior_site_marg_left, len)
        mr == pv_convolve(feat.prior_site_marg_right, len)
    IN  /\ s.cond_p_cons_left =
               pv_p_value(pm_x_given_tot_indep(s.post_min_tot, ml, mr), s.post_max_left, LOWER)
        /\ s.cond_p_anti_cons_left =
               pv_p_value(pm_x_given_tot_indep(s.post_max_tot, ml, mr), s.post_min_left, UPPER)
        /\ s.cond_p_cons_right =
               pv_p_value(pm_y_given_tot_indep(s.post_min_tot, ml, mr), s.post_max_right, LOWER)
        /\ s.cond_p_anti_cons_right =
               pv_p_value(pm_y_given_tot_indep(s.post_max_tot, ml, mr), s.post_min_right, UPPER)
        /\ s.p_cons_left = pv_p_value(ml, s.post_max_left, LOWER)
        /\ s.p_anti_cons_left = pv_p_value(ml, s.post_min_left, UPPER)
        /\ s.p_cons_right = pv_p_value(mr, s.post_max_right, LOWER)
        /\ s.p_anti_cons_right = pv_p_value(mr, s.post_min_right, UPPER)

\* C10: for every feature of length len, if len <= max_conv_len the joint
\* prior is the explicit len-fold convolution of the per-site prior and
\* cond_p_approx is false; if len > max_conv_len there is no joint prior,
\* cond_p_approx is true, the conditional p-values come from the independence
\* formula and the four marginal p-values from the convolved 1-D marginals.
C10_ConvolutionDecision ==
    /\ pc \in {"aggregate", "conditional"} =>
           LET len == FeatLen(Feat)
           IN  IF len <= feat.max_conv_len
               THEN /\ feat.prior # NoMatrix
                    /\ feat.prior = pm_convolve(feat.prior_site, len)
                    /\ feat.prior_marg_left = pm_marg_x(feat.prior)
                    /\ feat.prior_marg_right = pm_marg_y(feat.prior)
               ELSE /\ feat.prior = NoMatrix
                    /\ feat.prior_marg_left = pv_convolve(feat.prior_site_marg_left, len)
                    /\ feat.prior_marg_right = pv_convolve(feat.prior_site_marg_right, len)
    /\ pc \in {"features", "aggregate", "conditional"} =>
           \A k \in 1..Len(feat.stats) :
               LET len == FeatLen(feat.feats[k])
               IN  /\ feat.stats[k].cond_p_approx = (len > feat.max_conv_len)
                   /\ len > feat.max_conv_len => ApproxPValues(len, feat.stats[k])

\* a run that has processed a feature of length max_conv_len + 1 with the
\* approximation and a feature of length max_conv_len with the explicit prior
C10_Witness ==
    /\ pc = "features"
    /\ Len(feat.stats) = 2
    /\ FeatLen(feat.feats[1]) = feat.max_conv_len + 1
    /\ feat.stats[1].cond_p_approx
    /\ FeatLen(feat.feats[2]) = feat.max_conv_len
    /\ ~feat.stats[2].cond_p_approx
    /\ Finite(feat.stats[1].cond_p_cons_left)

\* lines 620-639: the prior of the feature from the powers of the per-site
\* prior; pows_idx lists the i with pows[..] = pow_p[i]
ManyFeaturePrior ==
    /\ pc = "many_features"
    /\ feat.idx < Len(feat.feats)
    /\ LET len == FeatLen(Feat)
           loglen == log2_int(len)
           bits == SetBitsFrom(len, 0, loglen)
           pows == [k \in 1..Len(bits) |-> feat.pow_p[bits[k]]]
           prior == pv_convolve_many(pows, Len(bits))
           st == pv_stats(prior)
           ci == pv_confidence_interval(prior, Rat(19, 20))
       IN  IF BitSum(bits, 1) # len
           THEN /\ pc' = "abort"
                /\ feat' = [pows_idx |-> bits] @@ feat
           ELSE /\ feat' = [pows_idx |-> bits, prior |-> prior,
                            cur |-> [prior_mean |-> st.mean, prior_var |-> st.var,
                                     prior_min |-> ci.min, prior_max |-> ci.max]] @@ feat
                /\ pc' = "many_aggregate"
    /\ UNCHANGED <<mod, jp, cond, j, tab, call, L, maxsubst, retval>>

\* lines 642-661: the summed posterior moments, the interval around the
\* posterior mean and the p-values of the feature
ManyFeaturePosterior ==
    /\ pc = "many_aggregate"
    /\ LET post_mean == SumOver(Feat, feat.msa, feat.post_mean)
           post_var == SumOver(Feat, feat.msa, feat.post_var)
           this == PostInterval(post_mean, post_var, feat.ci)
           post_min == Floor(this.min)
           post_max == Ceil(this.max)
       IN  feat' = [feat EXCEPT
                       !.stats = Append(@,
                           [post_mean |-> post_mean, post_var |-> post_var,
                            post_min |-> post_min, post_max |-> post_max,
                            p_cons |-> pv_p_value(feat.prior, post_max, LOWER),
                            p_anti_cons |-> pv_p_value(feat.prior, post_min, UPPER)]
                           @@ feat.cur),
                       !.prior = NoVector,
                       !.idx = @ + 1]
    /\ pc' = "many_features"
    /\ UNCHANGED <<mod, jp, cond, j, tab, call, L, maxsubst, retval>>

\* lines 663-672: the tables are freed and the stats returned
ManyReturn ==
    /\ pc = "many_features"
    /\ feat.idx >= Len(feat.feats)
    /\ retval' = feat.stats
    /\ feat' = [feat EXCEPT !.pow_p = NULL, !.post_mean = NULL, !.post_var = NULL,
                            !.used = NULL]
    /\ pc' = "returned"
    /\ UNCHANGED <<mod, jp, cond, j, tab, call, L, maxsubst>>

NextMany ==
    \/ CallMany
    \/ ManyPowers
    \/ ManyPosteriorTuple
    \/ ManyFeaturePrior
    \/ ManyFeaturePosterior
    \/ ManyReturn
    \/ Release

SpecMany == InitJoint /\ [][NextMany]_vars

-----------------------------------------------------------------------------
(* The alignment functions, and the operations of the core on one jump     *)
(* process (SpecCore).                                                     *)

\* nsites of the alignment priors
AlignmentSites == {1, 2, 3}

\* msa->ss->counts: the number of positions of each column tuple
TupleCounts(msa) ==
    [t \in 0..(msa.ss.ntuples - 1) |->
        Cardinality({i \in DOMAIN msa.ss.tuple_idx : msa.ss.tuple_idx[i] = t})]

\* the arguments of pv_convolve_many / pm_convolve_many with counts:
\* tup_p[t] taken counts[t] times, for t = from..n-1
RECURSIVE RepeatFrom(_, _, _, _)
RepeatFrom(tup_p, counts, from, n) ==
    IF from >= n THEN <<>>
    ELSE [k \in 1..counts[from] |-> tup_p[from]] \o RepeatFrom(tup_p, counts, from + 1, n)

\* the index the site functions use in a call on msa
SeqIdxFor(msa) ==
    IF mod.msa_seq_idx = <<>> THEN tm_build_seq_idx(mod.tree, msa) ELSE mod.msa_seq_idx

\* lines 305-310: sub_prior_distrib_alignment
CallPriorAlignment ==
    /\ pc = "idle"
    /\ \E nsites \in AlignmentSites :
          LET p == sub_prior_distrib_site(mod, jp)
          IN  /\ call' = [fn |-> "sub_prior_distrib_alignment", nsites |-> nsites]
              /\ IF p = NoVector
                 THEN pc' = "abort" /\ retval' = retval
                 ELSE pc' = "returned" /\ retval' = pv_convolve(p, nsites)
    /\ UNCHANGED <<mod, jp, cond, j, tab, L, maxsubst, feat>>

\* lines 315-334: sub_posterior_distrib_alignment
CallPosteriorAlignment ==
    /\ pc = "idle"
    /\ \E msa \in JointMSAs(mod) :
          LET seq_idx == SeqIdxFor(msa)
              counts == TupleCounts(msa)
              tup_p == [t \in 0..(msa.ss.ntuples - 1) |->
                           sub_posterior_distrib_site(mod, jp, msa, t, seq_idx)]
              ps == RepeatFrom(tup_p, counts, 0, msa.ss.ntuples)
          IN  /\ call' = [fn |-> "sub_posterior_distrib_alignment", msa |-> msa]
              /\ mod' = [mod EXCEPT !.msa_seq_idx = seq_idx]
              /\ IF \E t \in DOMAIN tup_p : tup_p[t] = NoVector
                 THEN pc' = "die" /\ retval' = retval
                 ELSE pc' = "returned" /\ retval' = pv_convolve_many(ps, Len(ps))
    /\ UNCHANGED <<jp, cond, j, tab, L, maxsubst, feat>>

\* lines 499-504: sub_prior_joint_distrib_alignment
CallPriorJointAlignment ==
    /\ pc = "idle"
    /\ \E nsites \in AlignmentSites :
          LET p == sub_joint_distrib_site(mod, jp, NoMSA, -1, mod.msa_seq_idx)
          IN  /\ call' = [fn |-> "sub_prior_joint_distrib_alignment", nsites |-> nsites]
              /\ pc' = "returned"
              /\ retval' = pm_convolve(p, nsites)
    /\ UNCHANGED <<mod, jp, cond, j, tab, L, maxsubst, feat>>

\* lines 513-533: sub_posterior_joint_distrib_alignment
CallPosteriorJointAlignment ==
    /\ pc = "idle"
    /\ \E msa \in JointMSAs(mod) :
          LET seq_idx == SeqIdxFor(msa)
              counts == TupleCounts(msa)
              tup_p == [t \in 0..(msa.ss.ntuples - 1) |->
                           sub_joint_distrib_site(mod, jp, msa, t, seq_idx)]
              ps == RepeatFrom(tup_p, counts, 0, msa.ss.ntuples)
          IN  /\ call' = [fn |-> "sub_posterior_joint_distrib_alignment", msa |-> msa]
              /\ mod' = [mod EXCEPT !.msa_seq_idx = seq_idx]
              /\ IF \E t \in DOMAIN tup_p : tup_p[t] = NoMatrix
                 THEN pc' = "abort" /\ retval' = retval
                 ELSE pc' = "returned"
                      /\ retval' = pm_normalize(MatConvolveAll(ps, Len(ps)))
    /\ UNCHANGED <<jp, cond, j, tab, L, maxsubst, feat>>

\* any sequence of calls of the site functions, the alignment functions and
\* sub_p_value_many on one jump process (SpecJoint has the calls of
\* sub_p_value_joint_many)
NextCore ==
    \/ CallPosteriorSite
    \/ CallJointSite
    \/ LeafStep
    \/ InternalStep
    \/ PosteriorReturn
    \/ JointReturn
    \/ CallPriorAlignment
    \/ CallPosteriorAlignment
    \/ CallPriorJointAlignment
    \/ CallPosteriorJointAlignment
    \/ CallMany
    \/ ManyPowers
    \/ ManyPosteriorTuple
    \/ ManyFeaturePrior
    \/ ManyFeaturePosterior
    \/ ManyReturn
    \/ Release

SpecCore == InitJoint /\ [][NextCore]_vars

-----------------------------------------------------------------------------
(* consEntropy.c: solve_newton.  func and deriv are built from logarithms, *)
(* which exact rationals cannot follow; the value of the Newton step       *)
(* mu1 - func/deriv is drawn from NewtonSteps in every iteration.          *)

\* fabs
RAbs(x) == IF Finite(x) /\ x[1] < 0 THEN RNeg(x) ELSE x

\* line 67: the number of iterations after which solve_newton gives up
MaxNewtonIter == 30

\* lines 61-62: 1e-3
MuEps == Rat(1, 1000)

\* line 64: 1e-4
ConvergeEps == Rat(1, 10000)

\* a double that has not been assigned
NoIterate == <<>>

\* the values of expected_len
ExpectedLens == {2, 12, 2000}

\* the values of mu1 - func/deriv: below 0, 0, between 0 and 1e-3, 1e-3,
\* inside the interval (two of them within 1e-4 of each other, two exactly 1e-4
\* apart), 1 - 1e-3, between 1 - 1e-3 and 1, 1, above 1, and the NaN of a
\* logarithm of a negative number
NewtonSteps ==
    {RInt(-1), Zero, Rat(1, 2000), MuEps, Rat(1, 12), Rat(1, 2), Rat(10001, 20000),
     Rat(5001, 10000), RSub(One, MuEps), Rat(1999, 2000), One, Rat(3, 2), NaN}

\* lines 61-62
ClampMu(mu2) ==
    IF RLt(mu2, Zero) THEN MuEps
    ELSE IF RGt(mu2, One) THEN RSub(One, MuEps)
    ELSE mu2

\* line 64
NewtonConverged(mu1, mu2) == RLt(RAbs(RSub(mu2, mu1)), ConvergeEps)

\* a test that lets one more iteration run
NewtonGivesUpLate(niter) == niter > MaxNewtonIter

\* line 67
NewtonGivesUp(niter) == niter >= MaxNewtonIter

InitNewton == InitConvLen

\* lines 48-56: the call; mu1 = 1/expected_len
CallSolveNewton ==
    /\ pc = "idle"
    /\ \E expected_len \in ExpectedLens :
           call' = [fn |-> "solve_newton", mu1 |-> Rat(1, expected_len),
                    mu2 |-> NoIterate, niter |-> 0]
    /\ pc' = "newton"
    /\ UNCHANGED <<mod, jp, cond, j, tab, L, maxsubst, retval, feat>>

\* lines 58-67: one iteration of the loop; line 70: the return of 1/mu2
NewtonIteration ==
    /\ pc = "newton"
    /\ \E step \in NewtonSteps :
           LET mu2 == ClampMu(step)
           IN  IF NewtonConverged(call.mu1, mu2)
               THEN /\ call' = [call EXCEPT !.mu2 = mu2]
                    /\ retval' = RDiv(One, mu2)
                    /\ pc' = "returned"
               ELSE /\ call' = [call EXCEPT !.mu1 = mu2, !.mu2 = mu2, !.niter = @ + 1]
                    /\ retval' = retval
                    /\ pc' = IF NewtonGivesUp(call.niter + 1) THEN "die" ELSE pc
    /\ UNCHANGED <<mod, jp, cond, j, tab, L, maxsubst, feat>>

NextNewton ==
    \/ CallSolveNewton
    \/ NewtonIteration
    \/ Release

SpecNewton == InitNewton /\ [][NextNewton]_vars

-----------------------------------------------------------------------------
(* consEntropy.c: main, when H is computed from the two models.  The       *)
(* probabilities exp2(lprob[i]) of the columns come from                   *)
(* tl_compute_log_likelihood; they are drawn from ColumnProbs.             *)

\* a distribution over the four columns of two leaves and two states, with
\* the excess e added to the probability of the first column
ColumnProbsFrom(base, e) ==
    [i \in 0..3 |-> IF i = 0 THEN RAdd(base[i + 1], e) ELSE base[i + 1]]

\* the sums are 1, 1 -/+ 1e-4 / 2, 1 -/+ 1e-4, 1 -/+ 2e-4, 3/4 and 3/2
ColumnProbs ==
    {ColumnProbsFrom(base, e) :
        base \in {<<Rat(1, 4), Rat(1, 4), Rat(1, 4), Rat(1, 4)>>,
                  <<Rat(1, 2), Rat(1, 4), Rat(1, 8), Rat(1, 8)>>},
        e \in {Zero, Rat(1, 20000), Rat(-1, 20000), ConvergeEps, RNeg(ConvergeEps),
               Rat(1, 5000), Rat(-1, 5000), Rat(-1, 4), Rat(1, 2)}}

\* line 160: fabs(checksum1 - 1) > 1e-4 || fabs(checksum1 - 1) > 1e-4
ChecksumFails(checksum1, checksum2) ==
    \/ RGt(RAbs(RSub(checksum1, One)), ConvergeEps)
    \/ RGt(RAbs(RSub(checksum1, One)), ConvergeEps)

InitEntropy == InitConvLen

\* lines 113-145: the models are read and the likelihoods of all columns computed
CallEntropyMain ==
    /\ pc = "idle"
    /\ \E cons \in ColumnProbs : \E noncons \in ColumnProbs :
           call' = [fn |-> "consEntropy", cons_prob |-> cons, noncons_prob |-> noncons,
                    nlabels |-> 4, checksum1 |-> Zero, checksum2 |-> Zero]
    /\ pc' = "columns"
    /\ UNCHANGED <<mod, jp, cond, j, tab, L, maxsubst, retval, feat>>

\* lines 150-158: the sums of the column probabilities
SumColumns ==
    /\ pc = "columns"
    /\ call' = [call EXCEPT
                   !.checksum1 = RSum(call.cons_prob, 0, call.nlabels - 1),
                   !.checksum2 = RSum(call.noncons_prob, 0, call.nlabels - 1)]
    /\ pc' = "checksum"
    /\ UNCHANGED <<mod, jp, cond, j, tab, L, maxsubst, retval, feat>>

\* lines 160-161: the checksum test
Checksum ==
    /\ pc = "checksum"
    /\ pc' = IF ChecksumFails(call.checksum1, call.checksum2) THEN "die" ELSE "lengths"
    /\ UNCHANGED <<mod, jp, cond, j, tab, call, L, maxsubst, retval, feat>>

\* lines 164-180: L_min and L_max are computed and reported, main returns 0
ReportLengths ==
    /\ pc = "lengths"
    /\ retval' = 0
    /\ pc' = "returned"
    /\ UNCHANGED <<mod, jp, cond, j, tab, call, L, maxsubst, feat>>

NextEntropy ==
    \/ CallEntropyMain
    \/ SumColumns
    \/ Checksum
    \/ ReportLengths
    \/ Release

SpecEntropy == InitEntropy /\ [][NextEntropy]_vars

-----------------------------------------------------------------------------
(* The allocated columns of the tables L[v] (sizes only).  The values of   *)
(* the tables are left out here: L[v] holds the dimensions that mat_new    *)
(* gave the matrix of node v, and every branch distribution is a matrix of *)
(* size x size x ncols whose ncols is the size of the truncated Poisson of *)
(* the branch (line 171).                                                  *)

\* mat_new(nrows, ncols): the dimensions of the allocated matrix
mat_new(nrows, ncols) == [nrows |-> nrows, ncols |-> ncols]

\* lines 164, 171: pois->size, the number of columns of the matrices of a
\* branch (pv_poisson chooses where the Poisson is truncated); 250 + 251 - 2
\* is the last sum that fits 500 columns
BranchSizes == {1, 250, 251, 501}

\* lines 57-61, 100-110, 168: the jump process of model m whose branch to node
\* n has cols[n] columns, each less than njumps_max
SizedJumpProcess(m, cols) ==
    [mod |-> m, njumps_max |-> NjumpsMax(tr_total_len(m.tree)),
     branch_distrib |->
        [n \in 0..(m.tree.nnodes - 1) |->
            IF n = m.tree.id THEN NULL
            ELSE [a \in 0..(m.size - 1) |-> mat_new(m.size, cols[n])]]]

\* a tree of total length 36: njumps_max is 540
CapacityModel == TreeModel(JC2, ThreeLeafTree(RInt(9), RInt(9), RInt(9), RInt(9)))

InitCapacity ==
    /\ pc = "idle"
    /\ mod = CapacityModel
    /\ jp \in {SizedJumpProcess(CapacityModel, cols) :
                  cols \in [1..(CapacityModel.tree.nnodes - 1) -> BranchSizes]}
    /\ \A n \in 1..(mod.tree.nnodes - 1) :
          jp.njumps_max > jp.branch_distrib[n][0].ncols
    /\ cond = NULL
    /\ j = 0
    /\ tab = <<>>
    /\ call = NoCall
    /\ L = <<>>
    /\ maxsubst = <<>>
    /\ retval = NULL
    /\ feat = NULL

\* lines 205-217, 364-377: entry of one of the two site functions
CallSiteSized ==
    /\ pc = "idle"
    /\ \E fn \in {"sub_posterior_distrib_site", "sub_joint_distrib_site"} :
          call' = [fn |-> fn, lidx |-> 1]
    /\ L' = <<>>
    /\ maxsubst' = <<>>
    /\ pc' = "alloc"
    /\ UNCHANGED <<mod, jp, cond, j, tab, retval, feat>>

\* lines 219-276, 379-440: one node of the traversal.  The matrix of the node
\* is allocated with 500 columns and its columns 0..maxsubst are written; a
\* write past the last column is undefined: the run is killed or goes on.
SizedNode ==
    /\ pc = "alloc"
    /\ call.lidx <= Len(mod.tree.postorder)
    /\ LET n == mod.tree.postorder[call.lidx]
           lc == mod.tree.lchild[n]
           rc == mod.tree.rchild[n]
           mx == IF IsLeaf(mod.tree, n) THEN 0
                 ELSE InternalMaxsubst(maxsubst[lc], maxsubst[rc],
                                       jp.branch_distrib[lc], jp.branch_distrib[rc])
       IN  /\ L' = (n :> mat_new(mod.size, LCols)) @@ L
           /\ maxsubst' = (n :> mx) @@ maxsubst
           /\ call' = [call EXCEPT !.lidx = @ + 1]
           /\ IF mx < LCols THEN pc' = "alloc" ELSE pc' \in {"alloc", "killed"}
    /\ UNCHANGED <<mod, jp, cond, j, tab, retval, feat>>

\* lines 278-299, 442-462: the result has maxsubst[root] + 1 entries, read from
\* the columns 0..maxsubst[root] of the root's table
SizedReturn ==
    /\ pc = "alloc"
    /\ call.lidx > Len(mod.tree.postorder)
    /\ retval' = [size |-> maxsubst[mod.tree.id] + 1]
    /\ pc' = "returned"
    /\ UNCHANGED <<mod, jp, cond, j, tab, call, L, maxsubst, feat>>

NextCapacity ==
    \/ CallSiteSized
    \/ SizedNode
    \/ SizedReturn
    \/ Release

SpecCapacity == InitCapacity /\ [][NextCapacity]_vars

-----------------------------------------------------------------------------
(* max_convolve_len                                                        *)

\* the bound on the matrix size for length len, with the arguments of the
\* running call of max_convolve_len
CallSizeBound(len) ==
    ConvolveSizeBound(len, call.mean_l, call.sd_l, call.mean_r, call.sd_r)

\* the lengths the returned value is compared with
ConvLenRange == 0..12

\* C11: max_convolve_len returns the largest L whose size bound
\* (L*mean_l + 6*sd_l*sqrt(L)) * (L*mean_r + 6*sd_r*sqrt(L)) is at most
\* max_convolve_size; an L whose bound equals max_convolve_size is accepted.
C11_LargestLengthWithinSize ==
    (pc = "returned" /\ call.fn = "max_convolve_len") =>
        /\ RLe(CallSizeBound(retval), RInt(call.max_convolve_size))
        /\ \A len \in ConvLenRange :
               RLe(CallSizeBound(len), RInt(call.max_convolve_size)) => len <= retval

-----------------------------------------------------------------------------
(* sub_p_value_many                                                        *)

\* bit i of len is set
BitSet(len, i) == (len \div int_pow(2, i)) % 2 = 1

\* C12: in sub_p_value_many, for a feature of length L with 1 <= L <= maxlen
\* the selected powers pow_p[i] are exactly those with bit i of L set, every
\* selected index is at most floor(log2(maxlen)), the exponents 2^i sum to L
\* (the checksum assertion never fails) and the prior is the L-fold
\* convolution of the per-site prior; for L = 1 it is the per-site prior.
C12_PowersAreBitsOfLength ==
    /\ (call.fn = "sub_p_value_many" => pc # "abort")
    /\ (pc = "many_aggregate" =>
           LET len == FeatLen(Feat)
               sel == feat.pows_idx
               prior_site == sub_prior_distrib_site(mod, jp)
           IN  /\ 1 <= len /\ len <= feat.maxlen
               /\ feat.logmaxlen = log2_int(feat.maxlen)
               /\ \A i \in 0..feat.logmaxlen :
                      feat.pow_p[i] = pv_convolve(prior_site, int_pow(2, i))
               /\ \A k1, k2 \in 1..Len(sel) : k1 < k2 => sel[k1] < sel[k2]
               /\ {sel[k] : k \in 1..Len(sel)} = {i \in 0..len : BitSet(len, i)}
               /\ \A k \in 1..Len(sel) : sel[k] <= feat.logmaxlen
               /\ BitSum(sel, 1) = len
               /\ feat.prior = pv_convolve(prior_site, len)
               /\ (len = 1 => feat.prior = prior_site))

\* a feature of length 5 = 2^0 + 2^2 has its prior from pow_p[0] and pow_p[2],
\* and in the same call a feature of length 1 has had the per-site prior
C12_Witness ==
    /\ pc = "many_aggregate"
    /\ FeatLen(Feat) = 5
    /\ feat.pows_idx = <<0, 2>>
    /\ feat.prior = pv_convolve(feat.pow_p[0], 5)
    /\ feat.feats = <<Feature(5, 5), Feature(1, 5)>>

\* the stats of the features sub_p_value_many has finished, while the
\* per-tuple posterior moments are still allocated
ManyStatsDone ==
    IF call.fn = "sub_p_value_many" /\ pc \in {"many_features", "many_aggregate"}
    THEN 1..Len(feat.stats) ELSE {}

\* C13 (as the code has it): in sub_p_value_many, for every feature post_mean
\* and post_var are the sums of the per-tuple posterior moments over its
\* positions; if ci is not -1, post_min and post_max are the floor and the
\* ceiling of the Gaussian interval mean -/+ z(ci)*sd; if ci is -1 they are
\* the floor and the ceiling of the posterior mean.
C13_PostIntervalFloorCeil ==
    \A k \in ManyStatsDone :
        LET s == feat.stats[k]
            half == RMul(NormQuantile(feat.ci), RSqrt(s.post_var))
        IN  /\ s.post_mean = SumOver(feat.feats[k], feat.msa, feat.post_mean)
            /\ s.post_var = SumOver(feat.feats[k], feat.msa, feat.post_var)
            /\ IF feat.ci # RInt(-1)
               THEN /\ s.post_min = Floor(RSub(s.post_mean, half))
                    /\ s.post_max = Ceil(RAdd(s.post_mean, half))
               ELSE /\ s.post_min = Floor(s.post_mean)
                    /\ s.post_max = Ceil(s.post_mean)

\* C13 (as stated): with ci > 0, post_min and post_max are floor and ceiling
\* of the Gaussian interval; otherwise (ci = 0 and ci = -1 included) post_min
\* and post_max both equal the posterior mean.
C13_PostIntervalOrMean ==
    \A k \in ManyStatsDone :
        LET s == feat.stats[k]
            half == RMul(NormQuantile(feat.ci), RSqrt(s.post_var))
        IN  IF RGt(feat.ci, Zero)
            THEN /\ s.post_min = Floor(RSub(s.post_mean, half))
                 /\ s.post_max = Ceil(RAdd(s.post_mean, half))
            ELSE /\ RInt(s.post_min) = s.post_mean
                 /\ RInt(s.post_max) = s.post_mean

\* a feature with ci = 0.95 whose interval reaches beyond the floor and the
\* ceiling of its posterior mean
C13_Witness ==
    /\ ManyStatsDone # {}
    /\ feat.ci = Rat(19, 20)
    /\ feat.stats[1].post_min < Floor(feat.stats[1].post_mean)
    /\ feat.stats[1].post_max > Ceil(feat.stats[1].post_mean)

-----------------------------------------------------------------------------
(* solve_newton                                                            *)

\* C14: in solve_newton, after every iteration the new iterate mu2 lies in
\* [1e-3, 1 - 1e-3], whatever number the Newton step is (a step between 0
\* and 1e-3 or between 1 - 1e-3 and 1 included).
C14_IterateIsClamped ==
    (call.fn = "solve_newton" /\ call.mu2 # NoIterate /\ Finite(call.mu2)) =>
        /\ RGe(call.mu2, MuEps)
        /\ RLe(call.mu2, RSub(One, MuEps))

\* C15: solve_newton stops after at most 30 iterations: an iteration starts
\* only after fewer than 30 others, the function returns 1/mu2 only in an
\* iteration with |mu2 - mu1| < 1e-4, and the 30th iteration without
\* convergence ends in the fatal error, without a value.
C15_NewtonStopsAfter30 ==
    call.fn = "solve_newton" =>
        /\ call.niter <= MaxNewtonIter
        /\ (pc = "newton" => call.niter < MaxNewtonIter)
        /\ (pc = "returned" =>
               /\ call.niter < MaxNewtonIter
               /\ RLt(RAbs(RSub(call.mu2, call.mu1)), ConvergeEps)
               /\ retval = RDiv(One, call.mu2))
        /\ (pc = "die" =>
               /\ call.niter = MaxNewtonIter
               /\ retval = NULL)
        /\ pc \in {"newton", "returned", "die"}

\* the 30th iteration did not converge
C15_Witness ==
    /\ call.fn = "solve_newton"
    /\ pc = "die"
    /\ call.niter = MaxNewtonIter
    /\ call.mu2 = Rat(1, 2)

-----------------------------------------------------------------------------
(* consEntropy: main                                                       *)

\* the sum differs from 1 by more than 1e-4
OffChecksum(sum) == RGt(RAbs(RSub(sum, One)), ConvergeEps)

\* C16: the entropy tool ends with the fatal checksum error whenever the sum
\* of the column probabilities under the cons model or the sum under the
\* noncons model differs from 1 by more than 1e-4, and goes on to L_min and
\* L_max only when both sums are within 1e-4 of 1.
C16_BothChecksumsTested ==
    call.fn = "consEntropy" =>
        /\ (pc \in {"lengths", "returned"} =>
               ~OffChecksum(call.checksum1) /\ ~OffChecksum(call.checksum2))
        /\ (pc = "die" => OffChecksum(call.checksum1) \/ OffChecksum(call.checksum2))

-----------------------------------------------------------------------------
(* msa_seq_idx                                                             *)

\* a site function is running on an alignment
SiteCallWithMSA ==
    /\ call.fn \in {"sub_posterior_distrib_site", "sub_joint_distrib_site"}
    /\ call.msa # NoMSA

\* C17: over any sequence of calls of the site functions on one model,
\* msa_seq_idx is built once, by the first call that is given an alignment
\* (not by a prior-only call), later calls leave it unchanged, and the index
\* a call uses is the one built for the alignment passed to that call.
C17_SeqIdxPerBinding ==
    /\ [][/\ (mod.msa_seq_idx # <<>> => mod'.msa_seq_idx = mod.msa_seq_idx)
          /\ (mod.msa_seq_idx = <<>> /\ mod'.msa_seq_idx # <<>> =>
                 /\ pc = "idle"
                 /\ call'.msa # NoMSA
                 /\ mod'.msa_seq_idx = tm_build_seq_idx(mod.tree, call'.msa))
          /\ (pc = "idle" /\ pc' # "idle" /\ call'.msa = NoMSA =>
                 mod'.msa_seq_idx = mod.msa_seq_idx)
          /\ (pc = "idle" /\ pc' # "idle" /\ call'.msa # NoMSA =>
                 mod'.msa_seq_idx # <<>>)]_vars
    /\ [](SiteCallWithMSA => mod.msa_seq_idx = tm_build_seq_idx(mod.tree, call.msa))

-----------------------------------------------------------------------------
(* The columns of L[v]                                                     *)

\* C18: in the tree dynamic program every node's table has at least
\* maxsubst[v] + 1 columns when it is written or read: no access L[v][a][n]
\* with n <= maxsubst[v] falls outside the allocated columns.
C18_TableHoldsMaxsubst ==
    pc \in {"alloc", "killed", "returned"} =>
        \A v \in DOMAIN maxsubst : maxsubst[v] + 1 <= L[v].ncols

-----------------------------------------------------------------------------
(* The per-tuple posteriors of the feature functions (SpecMany, SpecJoint). *)
(* feat.computed lists the tuple indices for which the per-site posterior  *)
(* was computed in the running call, in the order of the calls.            *)

\* tuple index t occurs at some position of some feature of the running call
TupleInFeature(t) ==
    \E k \in 1..Len(feat.feats) :
        \E i \in (feat.feats[k].start - 1)..(feat.feats[k].end - 1) :
            feat.msa.ss.tuple_idx[i] = t

\* how often x occurs in seq
Count(seq, x) == Cardinality({k \in 1..Len(seq) : seq[k] = x})

\* the loop over the column tuples is running or is over
InTupleLoop ==
    pc \in {"posterior", "features", "aggregate", "conditional",
            "many_posterior", "many_features", "many_aggregate", "returned"}

\* the loop over the column tuples is over
TupleLoopDone == InTupleLoop /\ pc \notin {"posterior", "many_posterior"}

\* the positions of the feature that is being aggregated
FeatPositions == (Feat.start - 1)..(Feat.end - 1)

\* C19: within one call of sub_p_value_many or sub_p_value_joint_many the
\* per-site posterior is computed exactly once for every tuple index that
\* occurs in some feature and never for one that occurs in none, and every
\* cached entry read while a feature is aggregated was computed earlier in
\* the same call.
C19_PosteriorOncePerUsedTuple ==
    /\ InTupleLoop =>
          \A t \in 0..(feat.msa.ss.ntuples - 1) :
              /\ Count(feat.computed, t) <= 1
              /\ ~TupleInFeature(t) => Count(feat.computed, t) = 0
    /\ TupleLoopDone =>
          \A t \in 0..(feat.msa.ss.ntuples - 1) :
              TupleInFeature(t) => Count(feat.computed, t) = 1
    /\ pc = "many_aggregate" =>
          \A i \in FeatPositions :
              /\ Count(feat.computed, feat.msa.ss.tuple_idx[i]) = 1
              /\ feat.msa.ss.tuple_idx[i] \in DOMAIN feat.post_mean
              /\ feat.msa.ss.tuple_idx[i] \in DOMAIN feat.post_var
    /\ pc = "aggregate" =>
          \A i \in FeatPositions :
              /\ Count(feat.computed, feat.msa.ss.tuple_idx[i]) = 1
              /\ feat.msa.ss.tuple_idx[i] \in DOMAIN feat.post_mean_left
              /\ feat.msa.ss.tuple_idx[i] \in DOMAIN feat.post_var_left
              /\ feat.msa.ss.tuple_idx[i] \in DOMAIN feat.post_mean_right
              /\ feat.msa.ss.tuple_idx[i] \in DOMAIN feat.post_var_right
              /\ feat.msa.ss.tuple_idx[i] \in DOMAIN feat.post_mean_tot
              /\ feat.msa.ss.tuple_idx[i] \in DOMAIN feat.post_var_tot

\* a feature is being aggregated that reads one cached entry at two
\* positions, in a call that leaves a column tuple unused and computed the
\* posterior of two others
C19_Witness ==
    /\ pc = "many_aggregate"
    /\ \E t \in 0..(feat.msa.ss.ntuples - 1) : ~TupleInFeature(t)
    /\ Len(feat.computed) = 2
    /\ \E i1, i2 \in FeatPositions :
          i1 # i2 /\ feat.msa.ss.tuple_idx[i1] = feat.msa.ss.tuple_idx[i2]

-----------------------------------------------------------------------------
(* The jump process is read-only (SpecCore, SpecJoint).                    *)

\* the fields of a jump process that the construction fills
JumpFields(x) == <<x.lambda, x.R, x.njumps_max, x.A, x.B, x.M, x.branch_distrib>>

\* C20: after sub_define_jump_process has returned, no operation of the core
\* (site and alignment priors and posteriors, scalar and bivariate, and both
\* feature functions) changes lambda, R, njumps_max, A, B, M or
\* branch_distrib of the jump process.
C20_JumpProcessReadOnly == [][JumpFields(jp)' = JumpFields(jp)]_vars

\* sub_p_value_many has returned the stats of two features after the alignment
\* index of the model was built, and the jump process is the one the
\* construction gave
C20_Witness ==
    /\ pc = "returned"
    /\ call.fn = "sub_p_value_many"
    /\ Len(retval) = 2
    /\ mod.msa_seq_idx # <<>>
    /\ JumpFields(jp) = JumpFields(sub_define_jump_process(mod))

-----------------------------------------------------------------------------
(* The indices of the inner loops (SpecSite).                              *)

\* the traversal is at an internal node
AtInternalNode ==
    /\ pc = "traverse"
    /\ call.lidx <= Len(mod.tree.postorder)
    /\ ~IsLeaf(mod.tree, Node)

\* the traversal of sub_joint_distrib_site is over and the root step is next
AtJointRoot ==
    /\ pc = "traverse"
    /\ call.lidx > Len(mod.tree.postorder)
    /\ call.fn = "sub_joint_distrib_site"

\* every read of the set is within columns 0..m of the child's table and
\* within the columns of the branch distribution d
ReadsInRange(reads, m, d) ==
    \A r \in reads : r.child \in 0..m /\ r.branch \in 0..(d[0].ncols - 1)

\* C21: at every internal node, for every total n and split j, the column
\* j - i (n - j - k) of the branch table lies in 0..ncols-1 and the column i
\* (k) of the child's table lies in 0..maxsubst of that child; and the same
\* holds for the column i of the left child's table in the root step of
\* sub_joint_distrib_site.
C21_IndicesInRange ==
    /\ AtInternalNode =>
          LET lc == mod.tree.lchild[Node]
              rc == mod.tree.rchild[Node]
              d_left == jp.branch_distrib[lc]
              d_right == jp.branch_distrib[rc]
          IN  /\ ReadsInRange(LeftReads(maxsubst[lc], maxsubst[rc], d_left, d_right),
                              maxsubst[lc], d_left)
              /\ ReadsInRange(RightReads(maxsubst[lc], maxsubst[rc], d_left, d_right),
                              maxsubst[rc], d_right)
    /\ AtJointRoot =>
          LET lc == mod.tree.lchild[mod.tree.id]
              d_left == jp.branch_distrib[lc]
          IN  ReadsInRange(RootReads(maxsubst[lc] + d_left[0].ncols, d_left, mod.size),
                           maxsubst[lc], d_left)

-----------------------------------------------------------------------------
(* maxsubst and the mass of the convolution (SpecSite).                    *)

\* the largest total with a left and a right contribution: the left one
\* reaches ml + ncols - 1 substitutions, the right one mr + ncols - 1
SupportEnd(ml, mr, d_left, d_right) ==
    (ml + d_left[0].ncols - 1) + (mr + d_right[0].ncols - 1)

\* C22: at every node v of the scalar dynamic program, for every label a the
\* joint probability of the data below v and n substitutions below v is zero
\* for every n > maxsubst[v]: the columns 0..maxsubst[v] of the table hold all
\* the mass of the untruncated convolution of the left and right
\* contributions.
C22_MaxsubstHoldsAllMass ==
    (AtInternalNode /\ call.fn = "sub_posterior_distrib_site") =>
        LET lc == mod.tree.lchild[Node]
            rc == mod.tree.rchild[Node]
            d_left == jp.branch_distrib[lc]
            d_right == jp.branch_distrib[rc]
            mx == InternalMaxsubst(maxsubst[lc], maxsubst[rc], d_left, d_right)
        IN  \A a \in 0..(mod.size - 1) :
                \A n \in (mx + 1)..SupportEnd(maxsubst[lc], maxsubst[rc], d_left, d_right) :
                    ConvolutionEntry(L[lc], L[rc], maxsubst[lc], maxsubst[rc],
                                     d_left, d_right, mod.size, a, n) = Zero

-----------------------------------------------------------------------------
(* The trial loop of max_convolve_len ends (SpecConvLen).                  *)

\* C23: max_convolve_len returns a non-negative length for every input that
\* sub_p_value_joint_many can pass, a marginal that is a point mass at 0
\* included: the trial loop starts from a non-negative length and ends at a
\* length whose bound is at least max_convolve_size.
C23_TrialLoopReachesSize ==
    /\ (pc = "trial" /\ call.fn = "max_convolve_len") => call.l >= 0
    /\ (pc = "returned" /\ call.fn = "max_convolve_len") =>
          /\ retval >= 0
          /\ retval < INT_MAX
          /\ RGe(CallSizeBound(retval + 1), RInt(call.max_convolve_size))

====
